---- MODULE Spec2Model ----
(***************************************************************************)
(* Behaviour scripts of the Fusefy slide deck.                             *)
(*                                                                         *)
(*   Spec       the info-box (tooltip) hover lifecycle of                  *)
(*              js/slide-consistency.js: setupGlobalHoverHandlers,         *)
(*              positionInfoBoxGlobal and the timers they schedule.        *)
(*                                                                         *)
(*   CacheSpec  the Storylane demo preload cache (preloadStorylaneDemos,    *)
(*              initStorylaneDemoPreloader, swapPreloadedIframe) and the   *)
(*              modal handlers of js/slide-consistency.js that use it      *)
(*              (setupStorylaneDemos, showStoryLaneModal,                  *)
(*              closeStoryLaneModals).  Time is counted in units of 500 ms.*)
(*                                                                         *)
(* Time in Spec is counted in units of 100 ms.  A timer is a record in the *)
(* bag `timers`; time cannot pass a timer that is due, and a due      *)
(* timer's callback runs to completion as one step (single-threaded event  *)
(* loop).                                                                  *)
(***************************************************************************)
EXTENDS Integers, Sequences, FiniteSets, Bags, TLC

\* ---------------------------------------------------------------- bounds
MaxTimers == 2          \* pending tooltip timers kept by the model
MaxInstalls == 2        \* runs of setupGlobalHoverHandlers kept by the model

\* ------------------------------------------------------ program constants
GraceDelay == 2         \* setTimeout(..., 200), in units of 100 ms
HideDelay == 3          \* setTimeout(..., 300), in units of 100 ms
DefaultWidth == 240     \* infoBox.offsetWidth || 240
DefaultHeight == 180    \* infoBox.offsetHeight || 180
WideViewport == 1280    \* windowWidth >= 1280
Margin == 10            \* the 10px margin of positionInfoBoxGlobal

Min(a, b) == IF a <= b THEN a ELSE b
Max(a, b) == IF a >= b THEN a ELSE b

\* ------------------------------------------------------------ the document
\* A class name is held split at '-': `words` are the segments before the
\* last '-', `last` is the segment after it, as a sequence of characters.
Digits == {"0", "1", "2", "3", "4", "5", "6", "7", "8", "9"}

DigitVal(c) ==
  CASE c = "0" -> 0 [] c = "1" -> 1 [] c = "2" -> 2 [] c = "3" -> 3
    [] c = "4" -> 4 [] c = "5" -> 5 [] c = "6" -> 6 [] c = "7" -> 7
    [] c = "8" -> 8 [] c = "9" -> 9

\* the .funnel-level elements of the page and their class lists
Anchors == {"a1", "a2", "aX", "aN", "aM", "aP"}

ClassList(a) ==
  CASE a = "a1" -> << [words |-> <<"funnel">>, last |-> <<"l">>],
                      [words |-> <<"funnel", "level">>, last |-> <<"1">>] >>
    [] a = "a2" -> << [words |-> <<"funnel", "level">>, last |-> <<"2">>] >>
    [] a = "aX" -> << [words |-> <<"funnel", "level">>, last |-> <<"1", "x">>] >>
    [] a = "aN" -> << [words |-> <<"funnel", "level">>, last |-> <<"x">>] >>
    [] a = "aM" -> << [words |-> <<"funnel", "level">>, last |-> <<"5">>] >>
    [] a = "aP" -> << [words |-> <<"funnel">>, last |-> <<"l">>] >>

\* the .info-box elements of the page: info-box-0 and info-box-1
Boxes == {"b0", "b1"}

\* the layout of the page the tooltip specification runs on: the bounding
\* rectangle of every funnel level and the measured size of every info box
\* (info-box-0 measures as zero)
PageRect(a) ==
  CASE a = "a1" -> [left |-> 100, top |-> 5, width |-> 200, height |-> 41]
    [] a = "a2" -> [left |-> 700, top |-> 300, width |-> 200, height |-> 40]
    [] a = "aX" -> [left |-> 1100, top |-> 560, width |-> 150, height |-> 40]
    [] OTHER    -> [left |-> 400, top |-> 200, width |-> 100, height |-> 40]

PageSize(b) == IF b = "b0" THEN [w |-> 0, h |-> 0] ELSE [w |-> 300, h |-> 200]

PageGeom == [rect |-> [a \in Anchors |-> PageRect(a)],
             size |-> [b \in Boxes |-> PageSize(b)]]

\* box.querySelector('.info-box-close') finds a close button
HasCloseBtn(b) == b = "b0"

\* window.innerWidth / innerHeight
Viewports == { [w |-> 1000, h |-> 600] }

VARIABLES
  installs,    \* how many times setupGlobalHoverHandlers has run
  viewport,    \* window.innerWidth / innerHeight
  geom,        \* layout: the funnel levels' rectangles, the info boxes' sizes
  boxStyle,    \* inline style of every info box
  boxClass,    \* classList of every info box (the classes the scripts use)
  ptr,         \* the element under the pointer, or "away"
  timers,      \* bag of the pending setTimeout callbacks of the hover handlers
  reenter      \* history: element re-entered while its own hide timer was pending

tvars == <<installs, viewport, geom, boxStyle, boxClass, ptr, timers, reenter>>

VARIABLES
  agentsSlide,    \* document.querySelector('.intelligent-agents-slide') finds an element
  modalKind,      \* per agent: "ok", "nohost" (no .sl-embed) or "nomodal"
  status,         \* window.storylanePreloadStatus
  bgFrames,       \* the iframes appended to document.body, in document order
  modalFrames,    \* per agent: the iframes inside its modal, in document order
  modalActive,    \* the agents whose .storylane-modal carries class 'active'
  bodyOverflow,   \* document.body.style.overflow
  keyboard,       \* Reveal's keyboard setting
  scriptTags,     \* number of script#storylane-script elements in document.head
  preloaderReady, \* the preloader's DOMContentLoaded handler has run
  inits,          \* runs of initStorylaneDemoPreloader that reached the agents slide
  demoInstalls,   \* runs of setupStorylaneDemos that installed its listeners
  preloadTimers,  \* bag of the pending preload timers
  used            \* history: the agent id and usedPreloadedFrame of the
                  \* showStoryLaneModal call of the last step ("none" when it
                  \* reached no modal) and the panels open before it;
                  \* CloseCall after a close handler, NoCall otherwise

cvars == <<agentsSlide, modalKind, status, bgFrames, modalFrames, modalActive,
           bodyOverflow, keyboard, scriptTags, preloaderReady, inits,
           demoInstalls, preloadTimers, used>>

VARIABLES
  zoomActive,     \* #zoomOverlay carries class 'active'
  frameLoading    \* the agents whose modal iframe has not fired 'load' yet

ovars == <<zoomActive, frameLoading>>

VARIABLES
  fonts,          \* inline font-size of the sections (percent) and of the h2 headings
  script,         \* the handlers in effect: those of slide-consistency.js, or
                  \* those slides-interactive.js declares last
  contentSet,     \* style.display of #content-set-1 and #content-set-2
  currentSlide,   \* Reveal.getCurrentSlide(): "ai" (.ai-adoption-slide) or "other"
  popupActive,    \* the future cards whose .explanation-popup carries class 'active'
  hoverAt,        \* the card title or popup under the pointer, or "away"
  lastEvent       \* history: the event the last step handled

svars == <<fonts, script, contentSet, currentSlide, popupActive, hoverAt, lastEvent>>

vars == <<tvars, cvars, ovars, svars>>

\* ------------------------------------------------------- pure functions
\* targetElement.getBoundingClientRect()
Rect(a) == geom.rect[a]

\* infoBox.offsetWidth / offsetHeight
OffsetWidth(b) == geom.size[b].w
OffsetHeight(b) == geom.size[b].h

\* String.prototype.startsWith('funnel-level-')
StartsWithFunnelLevel(cls) ==
  /\ Len(cls.words) >= 2
  /\ cls.words[1] = "funnel"
  /\ cls.words[2] = "level"

\* Array.from(this.classList).find(cls => cls.startsWith('funnel-level-'))
RECURSIVE FindLevelClass(_)
FindLevelClass(classes) ==
  IF classes = << >> THEN [found |-> FALSE, last |-> << >>]
  ELSE IF StartsWithFunnelLevel(Head(classes))
       THEN [found |-> TRUE, last |-> Head(classes).last]
       ELSE FindLevelClass(Tail(classes))

\* parseInt: the value of the longest prefix of decimal digits, NaN if empty
RECURSIVE ParseDigits(_, _, _)
ParseDigits(chars, acc, seen) ==
  IF chars # << >> /\ Head(chars) \in Digits
  THEN ParseDigits(Tail(chars), 10 * acc + DigitVal(Head(chars)), TRUE)
  ELSE [nan |-> ~seen, val |-> acc]

ParseInt(chars) == ParseDigits(chars, 0, FALSE)

\* `info-box-${levelNum-1}` followed by document.getElementById
ElementById(n) ==
  IF n = 0 THEN "b0" ELSE IF n = 1 THEN "b1" ELSE "null"

InfoBoxIdNoOffset(levelNum) ==
  IF levelNum.nan THEN [nan |-> TRUE, val |-> 0]
  ELSE [nan |-> FALSE, val |-> levelNum.val]

InfoBoxId(levelNum) ==
  IF levelNum.nan THEN [nan |-> TRUE, val |-> 0]
  ELSE [nan |-> FALSE, val |-> levelNum.val - 1]

\* the info box a funnel level resolves to: "skip" when there is no level
\* class, "null" when getElementById finds nothing
ResolveInfoBox(a) ==
  LET lc == FindLevelClass(ClassList(a)) IN
  IF ~lc.found THEN "skip"
  ELSE LET id == InfoBoxId(ParseInt(lc.last)) IN
       IF id.nan THEN "null" ELSE ElementById(id.val)

PositionWithoutBottomClamp(style, classes, b, rect, vp) ==
  LET originalVisibility == style.visibility
      originalOpacity == style.opacity
      infoBoxWidth == IF OffsetWidth(b) # 0 THEN OffsetWidth(b) ELSE DefaultWidth
      infoBoxHeight == IF OffsetHeight(b) # 0 THEN OffsetHeight(b) ELSE DefaultHeight
      shouldPositionOnRight == vp.w >= WideViewport
      rightEdge == rect.left + rect.width
      isInRightHalf == 2 * rect.left + rect.width > vp.w
      cleared == classes \ {"left-side", "right-side"}
      rightPos == Min(vp.w - infoBoxWidth - Margin, rightEdge + Margin)
      leftSide == ~shouldPositionOnRight /\ isInRightHalf
      leftPos == IF leftSide
                 THEN Max(Margin, rect.left - infoBoxWidth - Margin)
                 ELSE rightPos
      topPos2 == 2 * rect.top + rect.height - infoBoxHeight
      finalTop2 == Max(2 * Margin, topPos2)
  IN [style |-> [style EXCEPT !.visibility = originalVisibility,
                              !.opacity = originalOpacity,
                              !.position = "fixed",
                              !.left = leftPos,
                              !.top2 = finalTop2],
      classes |-> cleared \cup {IF leftSide THEN "left-side" ELSE "right-side"}]

PositionStrictThreshold(style, classes, b, rect, vp) ==
  LET originalVisibility == style.visibility
      originalOpacity == style.opacity
      infoBoxWidth == IF OffsetWidth(b) # 0 THEN OffsetWidth(b) ELSE DefaultWidth
      infoBoxHeight == IF OffsetHeight(b) # 0 THEN OffsetHeight(b) ELSE DefaultHeight
      shouldPositionOnRight == vp.w > WideViewport
      rightEdge == rect.left + rect.width
      isInRightHalf == 2 * rect.left + rect.width > vp.w
      cleared == classes \ {"left-side", "right-side"}
      rightPos == Min(vp.w - infoBoxWidth - Margin, rightEdge + Margin)
      leftSide == ~shouldPositionOnRight /\ isInRightHalf
      leftPos == IF leftSide
                 THEN Max(Margin, rect.left - infoBoxWidth - Margin)
                 ELSE rightPos
      topPos2 == 2 * rect.top + rect.height - infoBoxHeight
      finalTop2 == Max(2 * Margin,
                       Min(2 * (vp.h - infoBoxHeight - Margin), topPos2))
  IN [style |-> [style EXCEPT !.visibility = originalVisibility,
                              !.opacity = originalOpacity,
                              !.position = "fixed",
                              !.left = leftPos,
                              !.top2 = finalTop2],
      classes |-> cleared \cup {IF leftSide THEN "left-side" ELSE "right-side"}]

PositionFlushRight(style, classes, b, rect, vp) ==
  LET originalVisibility == style.visibility
      originalOpacity == style.opacity
      infoBoxWidth == IF OffsetWidth(b) # 0 THEN OffsetWidth(b) ELSE DefaultWidth
      infoBoxHeight == IF OffsetHeight(b) # 0 THEN OffsetHeight(b) ELSE DefaultHeight
      shouldPositionOnRight == vp.w >= WideViewport
      rightEdge == rect.left + rect.width
      isInRightHalf == 2 * rect.left + rect.width > vp.w
      cleared == classes \ {"left-side", "right-side"}
      rightPos == Min(vp.w - infoBoxWidth - Margin, rightEdge)
      leftSide == ~shouldPositionOnRight /\ isInRightHalf
      leftPos == IF leftSide
                 THEN Max(Margin, rect.left - infoBoxWidth - Margin)
                 ELSE rightPos
      topPos2 == 2 * rect.top + rect.height - infoBoxHeight
      finalTop2 == Max(2 * Margin,
                       Min(2 * (vp.h - infoBoxHeight - Margin), topPos2))
  IN [style |-> [style EXCEPT !.visibility = originalVisibility,
                              !.opacity = originalOpacity,
                              !.position = "fixed",
                              !.left = leftPos,
                              !.top2 = finalTop2],
      classes |-> cleared \cup {IF leftSide THEN "left-side" ELSE "right-side"}]

PositionHalfInclusive(style, classes, b, rect, vp) ==
  LET originalVisibility == style.visibility
      originalOpacity == style.opacity
      infoBoxWidth == IF OffsetWidth(b) # 0 THEN OffsetWidth(b) ELSE DefaultWidth
      infoBoxHeight == IF OffsetHeight(b) # 0 THEN OffsetHeight(b) ELSE DefaultHeight
      shouldPositionOnRight == vp.w >= WideViewport
      rightEdge == rect.left + rect.width
      isInRightHalf == 2 * rect.left + rect.width >= vp.w
      cleared == classes \ {"left-side", "right-side"}
      rightPos == Min(vp.w - infoBoxWidth - Margin, rightEdge + Margin)
      leftSide == ~shouldPositionOnRight /\ isInRightHalf
      leftPos == IF leftSide
                 THEN Max(Margin, rect.left - infoBoxWidth - Margin)
                 ELSE rightPos
      topPos2 == 2 * rect.top + rect.height - infoBoxHeight
      finalTop2 == Max(2 * Margin,
                       Min(2 * (vp.h - infoBoxHeight - Margin), topPos2))
  IN [style |-> [style EXCEPT !.visibility = originalVisibility,
                              !.opacity = originalOpacity,
                              !.position = "fixed",
                              !.left = leftPos,
                              !.top2 = finalTop2],
      classes |-> cleared \cup {IF leftSide THEN "left-side" ELSE "right-side"}]

PositionLeavesHidden(style, classes, b, rect, vp) ==
  LET originalVisibility == style.visibility
      originalOpacity == style.opacity
      infoBoxWidth == IF OffsetWidth(b) # 0 THEN OffsetWidth(b) ELSE DefaultWidth
      infoBoxHeight == IF OffsetHeight(b) # 0 THEN OffsetHeight(b) ELSE DefaultHeight
      shouldPositionOnRight == vp.w >= WideViewport
      rightEdge == rect.left + rect.width
      isInRightHalf == 2 * rect.left + rect.width > vp.w
      cleared == classes \ {"left-side", "right-side"}
      rightPos == Min(vp.w - infoBoxWidth - Margin, rightEdge + Margin)
      leftSide == ~shouldPositionOnRight /\ isInRightHalf
      leftPos == IF leftSide
                 THEN Max(Margin, rect.left - infoBoxWidth - Margin)
                 ELSE rightPos
      topPos2 == 2 * rect.top + rect.height - infoBoxHeight
      finalTop2 == Max(2 * Margin,
                       Min(2 * (vp.h - infoBoxHeight - Margin), topPos2))
  IN [style |-> [style EXCEPT !.visibility = "hidden",
                              !.opacity = "0",
                              !.position = "fixed",
                              !.left = leftPos,
                              !.top2 = finalTop2],
      classes |-> cleared \cup {IF leftSide THEN "left-side" ELSE "right-side"}]

\* positionInfoBoxGlobal: the inline style and classes it leaves on the box.
\* top2 is the top coordinate in half pixels (targetRect.height / 2).
PositionInfoBoxGlobal(style, classes, b, rect, vp) ==
  LET originalVisibility == style.visibility
      originalOpacity == style.opacity
      infoBoxWidth == IF OffsetWidth(b) # 0 THEN OffsetWidth(b) ELSE DefaultWidth
      infoBoxHeight == IF OffsetHeight(b) # 0 THEN OffsetHeight(b) ELSE DefaultHeight
      shouldPositionOnRight == vp.w >= WideViewport
      rightEdge == rect.left + rect.width
      isInRightHalf == 2 * rect.left + rect.width > vp.w
      cleared == classes \ {"left-side", "right-side"}
      rightPos == Min(vp.w - infoBoxWidth - Margin, rightEdge + Margin)
      leftSide == ~shouldPositionOnRight /\ isInRightHalf
      leftPos == IF leftSide
                 THEN Max(Margin, rect.left - infoBoxWidth - Margin)
                 ELSE rightPos
      topPos2 == 2 * rect.top + rect.height - infoBoxHeight
      finalTop2 == Max(2 * Margin,
                       Min(2 * (vp.h - infoBoxHeight - Margin), topPos2))
  IN [style |-> [style EXCEPT !.visibility = originalVisibility,
                              !.opacity = originalOpacity,
                              !.position = "fixed",
                              !.left = leftPos,
                              !.top2 = finalTop2],
      classes |-> cleared \cup {IF leftSide THEN "left-side" ELSE "right-side"}]

\* infoBox.matches(':hover'): the pointer is on the rendered box
Hovered(b) == ptr = b /\ boxStyle[b].display = "block"

\* ------------------------------------------------------------- the timers
\* A pending timer: the callback kind, the box it closes over, the time left
\* and (history) its age, the time since the event that started its chain and
\* the element whose handler started the chain ("close" for the close button).
NewTimer(kind, b, delay, el) ==
  [kind |-> kind, box |-> b, left |-> delay, age |-> 0, total |-> 0, el |-> el]

Pending == BagToSet(timers)
NumTimers == BagCardinality(timers)

RECURSIVE Schedule(_, _, _)
Schedule(bag, t, n) == IF n = 0 THEN bag ELSE Schedule(bag (+) SetToBag({t}), t, n - 1)

Cancel(bag, t) == bag (-) SetToBag({t})

Aged(t) == [t EXCEPT !.left = @ - 1, !.age = @ + 1, !.total = @ + 1]

\* a hide timer scheduled by a mouseleave of el has not fired yet
OwnTimerPending(el) ==
  \E t \in Pending :
     /\ t.el = el
     /\ t.kind = (IF el \in Anchors THEN "grace" ELSE "hide")

\* ------------------------------------------------------ content scaling
\* scaleFactor of adjustContentScaling, in percent
ScaleFactor(w) ==
  IF w >= 1920 THEN 95
  ELSE IF w >= 1600 THEN 92
  ELSE IF w >= 1440 THEN 90
  ELSE IF w >= 1280 THEN 85
  ELSE IF w >= 1024 THEN 80
  ELSE 75

\* adjustContentScaling(): f is the inline font sizes before the call
adjustContentScaling(f, w) ==
  [section |-> ScaleFactor(w),
   heading |-> IF w <= 1280 THEN "22px"
               ELSE IF w <= 1440 THEN "24px"
               ELSE f.heading]

\* the inline font sizes of the markup
MarkupFonts == [section |-> 0, heading |-> ""]

\* no event handled yet, or one that no property looks at
NoEvent == [kind |-> "none", card |-> ""]

\* the overlays and the AI-adoption slide while another specification runs:
\* DOMContentLoaded has scaled the content and shown content set 1
PageIdle ==
  /\ zoomActive = FALSE
  /\ frameLoading = {}
  /\ fonts = adjustContentScaling(MarkupFonts, viewport.w)
  /\ script = "consistency"
  /\ contentSet = [one |-> "block", two |-> "none"]
  /\ currentSlide = "other"
  /\ popupActive = {}
  /\ hoverAt = "away"
  /\ lastEvent = NoEvent

\* ------------------------------------------------------------------ Init
InitStyle ==
  [display |-> "none", visibility |-> "", opacity |-> "",
   position |-> "", left |-> 0, top2 |-> 0]

TooltipInit ==
  /\ installs = 1
  /\ viewport \in Viewports
  /\ geom = PageGeom
  /\ boxStyle = [b \in Boxes |-> InitStyle]
  /\ boxClass = [b \in Boxes |-> {}]
  /\ ptr = "away"
  /\ timers = EmptyBag
  /\ reenter = "none"

\* --------------------------------------------------------------- actions
\* Reveal 'slidechanged': setupGlobalHoverHandlers adds every listener again
SlideChanged ==
  /\ installs < MaxInstalls
  /\ installs' = installs + 1
  /\ fonts' = adjustContentScaling(fonts, viewport.w)
  /\ lastEvent' = NoEvent
  /\ UNCHANGED <<viewport, geom, boxStyle, boxClass, ptr, timers, reenter>>
  /\ UNCHANGED <<script, contentSet, currentSlide, popupActive, hoverAt>>
  /\ UNCHANGED <<cvars, ovars>>

\* mouseenter on a funnel level (every installed copy of the listener runs;
\* the copies after the first find the box already shown and positioned)
AnchorMouseEnter(a) ==
  /\ ptr = "away"
  /\ ptr' = a
  /\ LET b == ResolveInfoBox(a) IN
     IF b \in Boxes
     THEN LET shown == [boxStyle[b] EXCEPT !.display = "block"]
              p == PositionInfoBoxGlobal(shown, boxClass[b] \cup {"hover-visible"},
                                         b, Rect(a), viewport)
          IN /\ boxStyle' = [boxStyle EXCEPT ![b] = p.style]
             /\ boxClass' = [boxClass EXCEPT ![b] = p.classes]
     ELSE UNCHANGED <<boxStyle, boxClass>>
  /\ reenter' = IF OwnTimerPending(a) THEN a ELSE "none"
  /\ UNCHANGED <<installs, viewport, geom, timers>>
  /\ UNCHANGED <<cvars, ovars, svars>>

\* mouseleave on a funnel level: every installed copy schedules a 200 ms timer
AnchorMouseLeave(a) ==
  /\ ptr = a
  /\ ptr' = "away"
  /\ LET b == ResolveInfoBox(a) IN
     IF b \in Boxes
     THEN /\ NumTimers + installs <= MaxTimers
          /\ timers' = Schedule(timers, NewTimer("grace", b, GraceDelay, a), installs)
     ELSE UNCHANGED timers
  /\ reenter' = "none"
  /\ UNCHANGED <<installs, viewport, geom, boxStyle, boxClass>>
  /\ UNCHANGED <<cvars, ovars, svars>>

\* mouseenter on an info box
BoxMouseEnter(b) ==
  /\ ptr = "away"
  /\ boxStyle[b].display = "block"
  /\ ptr' = b
  /\ boxClass' = [boxClass EXCEPT ![b] = @ \cup {"hover-visible"}]
  /\ reenter' = IF OwnTimerPending(b) THEN b ELSE "none"
  /\ UNCHANGED <<installs, viewport, geom, boxStyle, timers>>
  /\ UNCHANGED <<cvars, ovars, svars>>

\* mouseleave on an info box: every installed copy schedules a 300 ms timer
BoxMouseLeave(b) ==
  /\ ptr = b
  /\ NumTimers + installs <= MaxTimers
  /\ ptr' = "away"
  /\ boxClass' = [boxClass EXCEPT ![b] = @ \ {"hover-visible"}]
  /\ timers' = Schedule(timers, NewTimer("hide", b, HideDelay, b), installs)
  /\ reenter' = "none"
  /\ UNCHANGED <<installs, viewport, geom, boxStyle>>
  /\ UNCHANGED <<cvars, ovars, svars>>

CloseClickKeepsPin(b) ==
  /\ HasCloseBtn(b)
  /\ boxStyle[b].display = "block"
  /\ NumTimers + 1 <= MaxTimers
  /\ boxClass' = [boxClass EXCEPT ![b] = @ \ {"hover-visible"}]
  /\ timers' = Schedule(timers, NewTimer("hide", b, HideDelay, "close"), 1)
  /\ reenter' = "none"
  /\ UNCHANGED <<installs, viewport, geom, boxStyle, ptr>>
  /\ UNCHANGED <<cvars, ovars, svars>>

\* click on the .info-box-close control of a box (closeBtn.onclick is
\* assigned, so a single handler runs whatever the number of installs)
CloseClick(b) ==
  /\ HasCloseBtn(b)
  /\ boxStyle[b].display = "block"
  /\ NumTimers + 1 <= MaxTimers
  /\ boxClass' = [boxClass EXCEPT ![b] = @ \ {"hover-visible", "active"}]
  /\ timers' = Schedule(timers, NewTimer("hide", b, HideDelay, "close"), 1)
  /\ reenter' = "none"
  /\ UNCHANGED <<installs, viewport, geom, boxStyle, ptr>>
  /\ UNCHANGED <<cvars, ovars, svars>>

\* Reveal 'fragmentshown' / 'fragmenthidden' for an info box that is a fragment
FragmentShown(b) ==
  /\ "active" \notin boxClass[b]
  /\ boxClass' = [boxClass EXCEPT ![b] = @ \cup {"active"}]
  /\ UNCHANGED <<installs, viewport, geom, boxStyle, ptr, timers, reenter>>
  /\ UNCHANGED <<cvars, ovars, svars>>

FragmentHidden(b) ==
  /\ "active" \in boxClass[b]
  /\ boxClass' = [boxClass EXCEPT ![b] = @ \ {"active"}]
  /\ UNCHANGED <<installs, viewport, geom, boxStyle, ptr, timers, reenter>>
  /\ UNCHANGED <<cvars, ovars, svars>>

GraceFireNoHoverCheck(t) ==
  /\ t.kind = "grace"
  /\ t.left = 0
  /\ boxClass' = [boxClass EXCEPT ![t.box] = @ \ {"hover-visible"}]
  /\ timers' = Schedule(Cancel(timers, t),
                        [NewTimer("hide", t.box, HideDelay, t.el)
                           EXCEPT !.total = t.total], 1)
  /\ UNCHANGED <<installs, viewport, geom, boxStyle, ptr, reenter>>
  /\ UNCHANGED <<cvars, ovars, svars>>

\* the 200 ms callback of the funnel-level mouseleave
GraceFire(t) ==
  /\ t.kind = "grace"
  /\ t.left = 0
  /\ IF ~Hovered(t.box)
     THEN /\ boxClass' = [boxClass EXCEPT ![t.box] = @ \ {"hover-visible"}]
          /\ timers' = Schedule(Cancel(timers, t),
                                [NewTimer("hide", t.box, HideDelay, t.el)
                                   EXCEPT !.total = t.total], 1)
     ELSE /\ timers' = Cancel(timers, t)
          /\ UNCHANGED boxClass
  /\ UNCHANGED <<installs, viewport, geom, boxStyle, ptr, reenter>>
  /\ UNCHANGED <<cvars, ovars, svars>>

HideFireUnchecked(t) ==
  /\ t.kind = "hide"
  /\ t.left = 0
  /\ boxStyle' = [boxStyle EXCEPT ![t.box].display = "none"]
  /\ timers' = Cancel(timers, t)
  /\ UNCHANGED <<installs, viewport, geom, boxClass, ptr, reenter>>
  /\ UNCHANGED <<cvars, ovars, svars>>

\* the 300 ms callback (funnel-level chain, info-box mouseleave, close click)
HideFire(t) ==
  /\ t.kind = "hide"
  /\ t.left = 0
  /\ IF "hover-visible" \notin boxClass[t.box] /\ "active" \notin boxClass[t.box]
     THEN boxStyle' = [boxStyle EXCEPT ![t.box].display = "none"]
     ELSE UNCHANGED boxStyle
  /\ timers' = Cancel(timers, t)
  /\ UNCHANGED <<installs, viewport, geom, boxClass, ptr, reenter>>
  /\ UNCHANGED <<cvars, ovars, svars>>

\* 100 ms pass; no pending timer is overdue
Tick ==
  /\ timers # EmptyBag
  /\ \A t \in Pending : t.left > 0
  /\ timers' = [u \in {Aged(t) : t \in Pending} |->
                  timers[CHOOSE t \in Pending : Aged(t) = u]]
  /\ UNCHANGED <<installs, viewport, geom, boxStyle, boxClass, ptr, reenter>>
  /\ UNCHANGED <<cvars, ovars, svars>>

\* --------------------------------------------------- the demo preload cache
CacheMaxSetups == 1     \* runs of setupStorylaneDemos kept by the model

\* the keys of storylanePreloadStatus, storylaneUrls and modalMap
KnownKeys == {"po-agent", "onboarding-agent", "interview-agent", "claim-agent"}

\* property names every object literal inherits from Object.prototype
ProtoKeys == {"constructor"}

\* agent ids the operations are called with; "" also stands for a missing one
AllKeys == KnownKeys \cup ProtoKeys \cup {"unknown-key", ""}

\* the agent ids window.storylaneUtils.preloadStorylaneDemos is called with
\* directly, by code other than the timers and the card listeners
ApiKeys == {"unknown-key", "constructor", ""}

\* the data-agent-id attributes of the .agent-card elements of the page
CardKeys == {"po-agent", "onboarding-agent", "unknown-key", "constructor", ""}

storylaneUrls ==
  [k \in KnownKeys |->
     CASE k = "po-agent"         -> "d9xx3md7cyhg"
       [] k = "onboarding-agent" -> "daptmkw6awmo"
       [] k = "interview-agent"  -> "dhhssqjljjan"
       [] k = "claim-agent"      -> "1qaq6ksdkphn"]

modalMap ==
  [k \in KnownKeys |->
     CASE k = "po-agent"         -> "storylane-modal-po"
       [] k = "onboarding-agent" -> "storylane-modal-onboarding"
       [] k = "interview-agent"  -> "storylane-modal-interview"
       [] k = "claim-agent"      -> "storylane-modal-claim"]

\* window.storylanePreloadStatus[k] is truthy: an own property that is true,
\* or a property inherited from Object.prototype
FlagTruthy(obj, k) ==
  IF k \in DOMAIN obj THEN obj[k] ELSE k \in ProtoKeys

\* storylaneUrls[k] / modalMap[k] is truthy: an own property (a non-empty
\* string), or a property inherited from Object.prototype
Truthy(obj, k) == k \in DOMAIN obj \/ k \in ProtoKeys

\* An iframe is a record; onload tells whether showStoryLaneModal has put a
\* 'load' listener on it (every such listener sets the opacity to '1').
\* the iframe preloadStorylaneDemos creates
PreloadFrame(k) ==
  [cls |-> "storylane-preloader", agent |-> k,
   url |-> IF k \in DOMAIN storylaneUrls THEN storylaneUrls[k] ELSE "undefined",
   opacity |-> "0", ariaHidden |-> TRUE, onload |-> FALSE]

\* the iframe of a modal's static markup
StaticFrame(k) ==
  [cls |-> "sl-demo", agent |-> "", url |-> storylaneUrls[k],
   opacity |-> "", ariaHidden |-> FALSE, onload |-> FALSE]

preloadWithoutFlagCheck(c, agentId) ==
  IF agentId = "" THEN c
  ELSE IF ~Truthy(storylaneUrls, agentId) THEN c
  ELSE [status |-> [x \in DOMAIN c.status \cup {agentId} |->
                      IF x = agentId THEN TRUE ELSE c.status[x]],
        bg |-> Append(c.bg, PreloadFrame(agentId))]

preloadWithoutUrlCheck(c, agentId) ==
  IF agentId = "" \/ FlagTruthy(c.status, agentId) THEN c
  ELSE [status |-> [x \in DOMAIN c.status \cup {agentId} |->
                      IF x = agentId THEN TRUE ELSE c.status[x]],
        bg |-> Append(c.bg, PreloadFrame(agentId))]

preloadResettingOthers(c, agentId) ==
  IF agentId = "" \/ FlagTruthy(c.status, agentId) THEN c
  ELSE IF ~Truthy(storylaneUrls, agentId) THEN c
  ELSE [status |-> [x \in DOMAIN c.status \cup {agentId} |-> x = agentId],
        bg |-> Append(c.bg, PreloadFrame(agentId))]

preloadFlagOnly(c, agentId) ==
  IF agentId = "" \/ FlagTruthy(c.status, agentId) THEN c
  ELSE IF ~Truthy(storylaneUrls, agentId) THEN c
  ELSE [status |-> [x \in DOMAIN c.status \cup {agentId} |->
                      IF x = agentId THEN TRUE ELSE c.status[x]],
        bg |-> c.bg]

\* preloadStorylaneDemos(agentId) on c = [status, bg]
preloadStorylaneDemos(c, agentId) ==
  IF agentId = "" \/ FlagTruthy(c.status, agentId) THEN c
  ELSE IF ~Truthy(storylaneUrls, agentId) THEN c
  ELSE [status |-> [x \in DOMAIN c.status \cup {agentId} |->
                      IF x = agentId THEN TRUE ELSE c.status[x]],
        bg |-> Append(c.bg, PreloadFrame(agentId))]

RECURSIVE PreloadTimes(_, _, _)
PreloadTimes(c, agentId, n) ==
  IF n = 0 THEN c ELSE PreloadTimes(preloadStorylaneDemos(c, agentId), agentId, n - 1)

\* document.querySelector('.storylane-preloader[data-agent-id="k"]'):
\* the index in bg of the first match, 0 if there is none
PreloadedIndex(bg, k) ==
  LET hits == {i \in 1..Len(bg) : bg[i].cls = "storylane-preloader" /\ bg[i].agent = k}
  IN IF hits = {} THEN 0 ELSE CHOOSE i \in hits : \A j \in hits : i <= j

\* the agent ids that contain a double quote: spliced unescaped into
\* `.storylane-preloader[data-agent-id="${agentId}"]` they end the attribute
\* value early, and querySelector throws a SyntaxError for the selector
QuotedKeys == {"a\"b"}

SelectorThrows(k) == k \in QuotedKeys

\* the agent ids window.storylaneUtils.swapPreloadedIframe is called with
\* directly, by code other than showStoryLaneModal
SwapKeys == {"po-agent", "unknown-key", "a\"b"}

\* document.getElementById(modalMap[agentId]) finds the modal
ModalFound(kinds, agentId) ==
  agentId \in KnownKeys /\ kinds[agentId] # "nomodal"

swapWithoutRemove(kinds, bg, frames, agentId) ==
  LET i == PreloadedIndex(bg, agentId) IN
  IF SelectorThrows(agentId)
  THEN [ok |-> FALSE, threw |-> TRUE, frames |-> frames, bg |-> bg]
  ELSE IF i = 0 THEN [ok |-> FALSE, threw |-> FALSE, frames |-> frames, bg |-> bg]
  ELSE IF ~Truthy(modalMap, agentId) THEN [ok |-> FALSE, threw |-> FALSE, frames |-> frames, bg |-> bg]
  ELSE IF ~ModalFound(kinds, agentId) THEN [ok |-> FALSE, threw |-> FALSE, frames |-> frames, bg |-> bg]
  ELSE IF kinds[agentId] # "ok" THEN [ok |-> FALSE, threw |-> FALSE, frames |-> frames, bg |-> bg]
  ELSE LET clonedFrame == [bg[i] EXCEPT !.opacity = "1", !.ariaHidden = FALSE,
                                        !.cls = "sl-demo"]
       IN [ok |-> TRUE, threw |-> FALSE,
           frames |-> [frames EXCEPT ![agentId] = Append(@, clonedFrame)],
           bg |-> bg]

swapKeepingClass(kinds, bg, frames, agentId) ==
  LET i == PreloadedIndex(bg, agentId) IN
  IF SelectorThrows(agentId)
  THEN [ok |-> FALSE, threw |-> TRUE, frames |-> frames, bg |-> bg]
  ELSE IF i = 0 THEN [ok |-> FALSE, threw |-> FALSE, frames |-> frames, bg |-> bg]
  ELSE IF ~Truthy(modalMap, agentId) THEN [ok |-> FALSE, threw |-> FALSE, frames |-> frames, bg |-> bg]
  ELSE IF ~ModalFound(kinds, agentId) THEN [ok |-> FALSE, threw |-> FALSE, frames |-> frames, bg |-> bg]
  ELSE IF kinds[agentId] # "ok" THEN [ok |-> FALSE, threw |-> FALSE, frames |-> frames, bg |-> bg]
  ELSE LET host == frames[agentId]
           kept == IF host = << >> THEN << >> ELSE Tail(host)
           clonedFrame == [bg[i] EXCEPT !.opacity = "1", !.ariaHidden = FALSE]
       IN [ok |-> TRUE, threw |-> FALSE,
           frames |-> [frames EXCEPT ![agentId] = Append(kept, clonedFrame)],
           bg |-> bg]

swapMovingFrame(kinds, bg, frames, agentId) ==
  LET i == PreloadedIndex(bg, agentId) IN
  IF SelectorThrows(agentId)
  THEN [ok |-> FALSE, threw |-> TRUE, frames |-> frames, bg |-> bg]
  ELSE IF i = 0 THEN [ok |-> FALSE, threw |-> FALSE, frames |-> frames, bg |-> bg]
  ELSE IF ~Truthy(modalMap, agentId) THEN [ok |-> FALSE, threw |-> FALSE, frames |-> frames, bg |-> bg]
  ELSE IF ~ModalFound(kinds, agentId) THEN [ok |-> FALSE, threw |-> FALSE, frames |-> frames, bg |-> bg]
  ELSE IF kinds[agentId] # "ok" THEN [ok |-> FALSE, threw |-> FALSE, frames |-> frames, bg |-> bg]
  ELSE LET host == frames[agentId]
           kept == IF host = << >> THEN << >> ELSE Tail(host)
           movedFrame == [bg[i] EXCEPT !.opacity = "1", !.ariaHidden = FALSE,
                                       !.cls = "sl-demo"]
       IN [ok |-> TRUE, threw |-> FALSE,
           frames |-> [frames EXCEPT ![agentId] = Append(kept, movedFrame)],
           bg |-> [j \in 1..(Len(bg) - 1) |-> IF j < i THEN bg[j] ELSE bg[j + 1]]]

\* swapPreloadedIframe(agentId): [ok |-> the value returned, threw |-> the
\* call ended in an exception instead, frames |-> the modals' iframes,
\* bg |-> the iframes of document.body]
swapPreloadedIframe(kinds, bg, frames, agentId) ==
  LET i == PreloadedIndex(bg, agentId) IN
  IF SelectorThrows(agentId)
  THEN [ok |-> FALSE, threw |-> TRUE, frames |-> frames, bg |-> bg]
  ELSE IF i = 0 THEN [ok |-> FALSE, threw |-> FALSE, frames |-> frames, bg |-> bg]
  ELSE IF ~Truthy(modalMap, agentId) THEN [ok |-> FALSE, threw |-> FALSE, frames |-> frames, bg |-> bg]
  ELSE IF ~ModalFound(kinds, agentId) THEN [ok |-> FALSE, threw |-> FALSE, frames |-> frames, bg |-> bg]
  ELSE IF kinds[agentId] # "ok" THEN [ok |-> FALSE, threw |-> FALSE, frames |-> frames, bg |-> bg]
  ELSE LET host == frames[agentId]
           kept == IF host = << >> THEN << >> ELSE Tail(host)
           clonedFrame == [bg[i] EXCEPT !.opacity = "1", !.ariaHidden = FALSE,
                                        !.cls = "sl-demo"]
       IN [ok |-> TRUE, threw |-> FALSE,
           frames |-> [frames EXCEPT ![agentId] = Append(kept, clonedFrame)],
           bg |-> bg]

closeKeepingOverflow(m) ==
  [m EXCEPT !.active = {}, !.keyboard = TRUE]

\* closeStoryLaneModals() on m = [active, frames, bg, overflow, keyboard, used]
closeStoryLaneModals(m) ==
  [m EXCEPT !.active = {}, !.overflow = "", !.keyboard = TRUE]

showWithoutClose(kinds, m0, agentId) ==
  LET m == m0 IN
  IF ~Truthy(modalMap, agentId) THEN m
  ELSE IF ~ModalFound(kinds, agentId) THEN m
  ELSE LET r == swapPreloadedIframe(kinds, m.bg, m.frames, agentId)
           fs == r.frames[agentId]
           frames2 == IF ~r.ok /\ fs # << >>
                      THEN [r.frames EXCEPT ![agentId][1] =
                              [@ EXCEPT !.opacity = "0", !.onload = TRUE]]
                      ELSE r.frames
       IN [active |-> m.active \cup {agentId},
           frames |-> frames2,
           bg |-> r.bg,
           overflow |-> "hidden",
           keyboard |-> FALSE,
           used |-> IF r.ok THEN "true" ELSE "false"]

\* showStoryLaneModal(agentId)
showStoryLaneModal(kinds, m0, agentId) ==
  LET m == closeStoryLaneModals(m0) IN
  IF ~Truthy(modalMap, agentId) THEN m
  ELSE IF ~ModalFound(kinds, agentId) THEN m
  ELSE LET r == swapPreloadedIframe(kinds, m.bg, m.frames, agentId)
           fs == r.frames[agentId]
           frames2 == IF ~r.ok /\ fs # << >>
                      THEN [r.frames EXCEPT ![agentId][1] =
                              [@ EXCEPT !.opacity = "0", !.onload = TRUE]]
                      ELSE r.frames
       IN [active |-> m.active \cup {agentId},
           frames |-> frames2,
           bg |-> r.bg,
           overflow |-> "hidden",
           keyboard |-> FALSE,
           used |-> IF r.ok THEN "true" ELSE "false"]

\* no call of showStoryLaneModal or closeStoryLaneModals in the last step
NoCall == [key |-> "", result |-> "none", open |-> {}]

\* the last step called closeStoryLaneModals from a click or key handler
CloseCall == [key |-> "", result |-> "closed", open |-> {}]

RECURSIVE ShowTimes(_, _, _, _)
ShowTimes(kinds, m, agentId, n) ==
  IF n = 0 THEN m
  ELSE ShowTimes(kinds, showStoryLaneModal(kinds, m, agentId), agentId, n - 1)

Modals ==
  [active |-> modalActive, frames |-> modalFrames, bg |-> bgFrames,
   overflow |-> bodyOverflow, keyboard |-> keyboard, used |-> "none"]

SetModals(m) ==
  /\ modalActive' = m.active
  /\ modalFrames' = m.frames
  /\ bgFrames' = m.bg
  /\ bodyOverflow' = m.overflow
  /\ keyboard' = m.keyboard

PreloadPending == BagToSet(preloadTimers)

StaggeredSwapped(bag) ==
  bag (+) SetToBag({ [key |-> "po-agent", left |-> 4, age |-> 0],
                     [key |-> "onboarding-agent", left |-> 1, age |-> 0],
                     [key |-> "interview-agent", left |-> 7, age |-> 0],
                     [key |-> "claim-agent", left |-> 10, age |-> 0] })

\* the four staggered timers of initStorylaneDemoPreloader (500, 2000, 3500,
\* 5000 ms); age is (history) the time since the timer was set
StaggeredTimers(bag) ==
  bag (+) SetToBag({ [key |-> "po-agent", left |-> 1, age |-> 0],
                     [key |-> "onboarding-agent", left |-> 4, age |-> 0],
                     [key |-> "interview-agent", left |-> 7, age |-> 0],
                     [key |-> "claim-agent", left |-> 10, age |-> 0] })

\* ------------------------------------------------------------------ Init
CacheStart ==
  /\ status = [k \in KnownKeys |-> FALSE]
  /\ bgFrames = << >>
  /\ modalActive = {}
  /\ bodyOverflow = ""
  /\ keyboard = TRUE
  /\ scriptTags = 0
  /\ preloaderReady = FALSE
  /\ inits = 0
  /\ demoInstalls = 0
  /\ preloadTimers = EmptyBag
  /\ used = NoCall

\* the page the tooltip specification runs on: every modal complete
CacheIdle ==
  /\ CacheStart
  /\ agentsSlide = TRUE
  /\ modalKind = [k \in KnownKeys |-> "ok"]
  /\ modalFrames = [k \in KnownKeys |-> <<StaticFrame(k)>>]

\* the pages the cache specification runs on: the modal of po-agent may lack
\* its .sl-embed host, its iframe, or be missing altogether
CacheInit ==
  /\ CacheStart
  /\ agentsSlide \in BOOLEAN
  /\ \E kind \in {"ok", "nohost", "nomodal"}, static \in BOOLEAN :
       /\ static = (kind # "nomodal")
       /\ agentsSlide \/ kind = "ok"
       /\ modalKind = [k \in KnownKeys |-> IF k = "po-agent" THEN kind ELSE "ok"]
       /\ modalFrames = [k \in KnownKeys |->
                           IF k = "po-agent" /\ ~static THEN << >>
                           ELSE <<StaticFrame(k)>>]

\* showZoom(imgSrc) and closeZoom(): z is the overlay's active class and
\* Reveal's keyboard setting
showZoom(z) == [zoom |-> TRUE, keyboard |-> FALSE]

closeZoom(z) == [zoom |-> FALSE, keyboard |-> TRUE]

\* the tooltip page while the cache specification runs
TooltipIdle ==
  /\ installs = 1
  /\ viewport = [w |-> 1000, h |-> 600]
  /\ geom = PageGeom
  /\ boxStyle = [b \in Boxes |-> InitStyle]
  /\ boxClass = [b \in Boxes |-> {}]
  /\ ptr = "away"
  /\ timers = EmptyBag
  /\ reenter = "none"

Init == TooltipInit /\ CacheIdle /\ PageIdle

\* the page of the cache specification: tooltips idle, any modal layout
CachePageInit == TooltipIdle /\ CacheInit /\ PageIdle

\* --------------------------------------------------------------- actions
RunInitAlwaysAdds ==
  /\ scriptTags' = scriptTags + 1
  /\ IF agentsSlide
     THEN /\ preloadTimers' = StaggeredTimers(preloadTimers)
          /\ inits' = inits + 1
     ELSE UNCHANGED <<preloadTimers, inits>>

\* initStorylaneDemoPreloader()
RunInit ==
  /\ scriptTags' = IF scriptTags = 0 THEN 1 ELSE scriptTags
  /\ IF agentsSlide
     THEN /\ preloadTimers' = StaggeredTimers(preloadTimers)
          /\ inits' = inits + 1
     ELSE UNCHANGED <<preloadTimers, inits>>

\* the preloader's DOMContentLoaded handler
PreloaderLoaded ==
  /\ ~preloaderReady
  /\ preloaderReady' = TRUE
  /\ RunInit
  /\ used' = NoCall
  /\ UNCHANGED <<agentsSlide, modalKind, status, bgFrames, modalFrames,
                 modalActive, bodyOverflow, keyboard, demoInstalls>>
  /\ UNCHANGED <<tvars, ovars, svars>>

\* setupStorylaneDemos(), run by setupMiscInteractions on page load and on
\* every 'slidechanged'; the presentation classes it puts on the cards
\* (clickable, loading, clicked) are not part of the model
SetupStorylaneDemos ==
  /\ demoInstalls < CacheMaxSetups
  /\ IF agentsSlide
     THEN /\ demoInstalls' = demoInstalls + 1
          /\ RunInit
     ELSE UNCHANGED <<demoInstalls, scriptTags, preloadTimers, inits>>
  /\ used' = NoCall
  /\ UNCHANGED <<agentsSlide, modalKind, status, bgFrames, modalFrames,
                 modalActive, bodyOverflow, keyboard, preloaderReady>>
  /\ UNCHANGED <<tvars, ovars, svars>>

\* a staggered timer fires
PreloadTimerFire(t) ==
  /\ t.left = 0
  /\ LET c == preloadStorylaneDemos([status |-> status, bg |-> bgFrames], t.key) IN
       /\ status' = c.status
       /\ bgFrames' = c.bg
  /\ preloadTimers' = Cancel(preloadTimers, t)
  /\ used' = NoCall
  /\ UNCHANGED <<agentsSlide, modalKind, modalFrames, modalActive, bodyOverflow,
                 keyboard, scriptTags, preloaderReady, inits, demoInstalls>>
  /\ UNCHANGED <<tvars, ovars, svars>>

\* mouseenter on the agent card with data-agent-id k: one listener per run of
\* initStorylaneDemoPreloader and one per run of setupStorylaneDemos
CardMouseEnter(k) ==
  /\ inits + demoInstalls > 0
  /\ LET c == IF k = "" THEN [status |-> status, bg |-> bgFrames]
              ELSE PreloadTimes([status |-> status, bg |-> bgFrames], k,
                                inits + demoInstalls)
     IN /\ status' = c.status
        /\ bgFrames' = c.bg
  /\ used' = NoCall
  /\ UNCHANGED <<agentsSlide, modalKind, modalFrames, modalActive, bodyOverflow,
                 keyboard, scriptTags, preloaderReady, inits, demoInstalls,
                 preloadTimers>>
  /\ UNCHANGED <<tvars, ovars, svars>>

\* window.storylaneUtils.preloadStorylaneDemos(k) called directly
PreloadCall(k) ==
  /\ LET c == preloadStorylaneDemos([status |-> status, bg |-> bgFrames], k) IN
       /\ status' = c.status
       /\ bgFrames' = c.bg
  /\ used' = NoCall
  /\ UNCHANGED <<agentsSlide, modalKind, modalFrames, modalActive, bodyOverflow,
                 keyboard, scriptTags, preloaderReady, inits, demoInstalls,
                 preloadTimers>>
  /\ UNCHANGED <<tvars, ovars, svars>>

\* window.storylaneUtils.swapPreloadedIframe(k) called directly
SwapCall(k) ==
  /\ LET r == swapPreloadedIframe(modalKind, bgFrames, modalFrames, k) IN
       /\ modalFrames' = r.frames
       /\ bgFrames' = r.bg
       /\ used' = NoCall
  /\ UNCHANGED <<agentsSlide, modalKind, status, modalActive, bodyOverflow,
                 keyboard, scriptTags, preloaderReady, inits, demoInstalls,
                 preloadTimers>>
  /\ UNCHANGED <<tvars, ovars, svars>>

\* click on the agent card with data-agent-id k: every installed copy of the
\* delegated document listener runs showStoryLaneModal
CardClick(k) ==
  /\ demoInstalls > 0
  /\ LET m == IF k = "" THEN Modals
              ELSE ShowTimes(modalKind, Modals, k, demoInstalls)
     IN /\ SetModals(m)
        /\ used' = IF k = "" THEN NoCall
                   ELSE [key |-> k, result |-> m.used, open |-> modalActive]
  /\ UNCHANGED <<agentsSlide, modalKind, status, scriptTags,
                 preloaderReady, inits, demoInstalls, preloadTimers>>
  /\ UNCHANGED <<tvars, ovars, svars>>

\* click on a .close-storylane control
CloseClickModal ==
  /\ demoInstalls > 0
  /\ SetModals(closeStoryLaneModals(Modals))
  /\ used' = CloseCall
  /\ UNCHANGED <<agentsSlide, modalKind, status, scriptTags,
                 preloaderReady, inits, demoInstalls, preloadTimers>>
  /\ UNCHANGED <<tvars, ovars, svars>>

\* Escape pressed while an overlay is active: the keydown listener of
\* setupZoomableImages closes an active zoom overlay, then the one of
\* setupStorylaneDemos closes the modals if one is active
EscapeKey ==
  LET modalOpen == demoInstalls > 0 /\ modalActive # {}
      z == IF zoomActive THEN closeZoom([zoom |-> zoomActive, keyboard |-> keyboard])
           ELSE [zoom |-> zoomActive, keyboard |-> keyboard]
      m == [Modals EXCEPT !.keyboard = z.keyboard]
  IN /\ modalOpen \/ zoomActive
     /\ zoomActive' = z.zoom
     /\ SetModals(IF modalOpen THEN closeStoryLaneModals(m) ELSE m)
     /\ used' = IF modalOpen THEN CloseCall ELSE NoCall
     /\ UNCHANGED <<agentsSlide, modalKind, status, scriptTags,
                    preloaderReady, inits, demoInstalls, preloadTimers>>
     /\ UNCHANGED <<tvars, frameLoading, svars>>

\* click on a .clickable-image: showZoom
ImageClick ==
  LET z == showZoom([zoom |-> zoomActive, keyboard |-> keyboard]) IN
  /\ zoomActive' = z.zoom
  /\ keyboard' = z.keyboard
  /\ used' = NoCall
  /\ UNCHANGED <<agentsSlide, modalKind, status, bgFrames, modalFrames,
                 modalActive, bodyOverflow, scriptTags, preloaderReady,
                 inits, demoInstalls, preloadTimers>>
  /\ UNCHANGED <<tvars, frameLoading, svars>>

\* click on the .close-zoom control of the open zoom overlay: closeZoom
CloseZoomClick ==
  LET z == closeZoom([zoom |-> zoomActive, keyboard |-> keyboard]) IN
  /\ zoomActive
  /\ zoomActive' = z.zoom
  /\ keyboard' = z.keyboard
  /\ used' = NoCall
  /\ UNCHANGED <<agentsSlide, modalKind, status, bgFrames, modalFrames,
                 modalActive, bodyOverflow, scriptTags, preloaderReady,
                 inits, demoInstalls, preloadTimers>>
  /\ UNCHANGED <<tvars, frameLoading, svars>>

\* the iframe inside the modal of agent k finishes loading: every 'load'
\* listener showStoryLaneModal added to it runs
FrameLoad(k) ==
  /\ k \in frameLoading
  /\ frameLoading' = frameLoading \ {k}
  /\ modalFrames' =
       IF modalFrames[k] # << >> /\ modalFrames[k][1].onload
       THEN [modalFrames EXCEPT ![k][1].opacity = "1"]
       ELSE modalFrames
  /\ used' = NoCall
  /\ UNCHANGED <<agentsSlide, modalKind, status, bgFrames, modalActive,
                 bodyOverflow, keyboard, scriptTags, preloaderReady, inits,
                 demoInstalls, preloadTimers>>
  /\ UNCHANGED <<tvars, zoomActive, svars>>

\* 500 ms pass; no pending preload timer is overdue
CacheTick ==
  /\ preloadTimers # EmptyBag
  /\ \A t \in PreloadPending : t.left > 0
  /\ preloadTimers' =
       [u \in {[t EXCEPT !.left = @ - 1, !.age = @ + 1] : t \in PreloadPending} |->
          preloadTimers[[u EXCEPT !.left = @ + 1, !.age = @ - 1]]]
  /\ used' = NoCall
  /\ UNCHANGED <<agentsSlide, modalKind, status, bgFrames, modalFrames,
                 modalActive, bodyOverflow, keyboard, scriptTags, preloaderReady,
                 inits, demoInstalls>>
  /\ UNCHANGED <<tvars, ovars, svars>>

CacheNext ==
  \/ PreloaderLoaded
  \/ SetupStorylaneDemos
  \/ \E t \in PreloadPending : PreloadTimerFire(t)
  \/ \E k \in CardKeys : CardMouseEnter(k)
  \/ \E k \in ApiKeys : PreloadCall(k)
  \/ \E k \in CardKeys : CardClick(k)
  \/ \E k \in SwapKeys : SwapCall(k)
  \/ CloseClickModal
  \/ EscapeKey
  \/ CacheTick

CacheSpec == CachePageInit /\ [][CacheNext]_vars

\* The cache specification with the scheduling the event loop guarantees: the
\* page finishes loading, time passes and a due timer's callback runs.
CacheLiveSpec ==
  /\ CachePageInit
  /\ [][CacheNext]_vars
  /\ WF_vars(PreloaderLoaded)
  /\ WF_vars(CacheTick)
  /\ WF_vars(\E t \in PreloadPending : PreloadTimerFire(t))

\* -------------------------------------------------------- cache properties
\* number of off-screen preloader frames attached for key k
BackgroundCount(k) ==
  Cardinality({i \in 1..Len(bgFrames) :
                 bgFrames[i].cls = "storylane-preloader" /\ bgFrames[i].agent = k})

\* the callback of preload timer t ran in this step
PreloadFired(t) ==
  t.left = 0 /\ CopiesIn(t, preloadTimers') < CopiesIn(t, preloadTimers)

CacheNow == [status |-> status, bg |-> bgFrames]

\* C7: preload is idempotent per key: a key marked loaded has exactly one
\* background frame, no key ever has more than one, a staggered timer leaves
\* its key loaded with one frame, and a preload of a loaded key (by timer,
\* hover or direct call) creates no element and changes nothing.
C7_PreloadIdempotent ==
  [][ /\ \A k \in KnownKeys :
           /\ BackgroundCount(k) <= 1 /\ BackgroundCount(k)' <= 1
           /\ status'[k] => BackgroundCount(k)' = 1
           /\ status[k] => preloadStorylaneDemos(CacheNow, k) = CacheNow
           /\ ~status[k] =>
                 preloadStorylaneDemos(preloadStorylaneDemos(CacheNow, k), k)
                    = preloadStorylaneDemos(CacheNow, k)
      /\ \A t \in PreloadPending :
           PreloadFired(t) =>
              /\ status'[t.key] /\ BackgroundCount(t.key)' = 1
              /\ status[t.key] => (status' = status /\ bgFrames' = bgFrames)
    ]_vars

C7_Witness ==
  /\ status["po-agent"]
  /\ BackgroundCount("po-agent") = 1
  /\ \E t \in PreloadPending : t.key = "po-agent" /\ t.left = 0

\* C8: preload of a key outside the fixed set, the empty key included, adds
\* no element to the document and leaves the preload-status map unchanged.
C8_UnknownKeyNoOp ==
  \A k \in AllKeys \ KnownKeys :
     /\ preloadStorylaneDemos(CacheNow, k) = CacheNow
     /\ k \notin DOMAIN status
     /\ BackgroundCount(k) = 0

C8_Witness ==
  /\ status["po-agent"] /\ ~status["claim-agent"]
  /\ Len(bgFrames) = 1
  /\ "unknown-key" \notin DOMAIN status

\* C9: the loaded flag of every key is monotonic and the key set of the
\* status map never changes.
C9_LoadedMonotonic ==
  [][ /\ DOMAIN status' = DOMAIN status
      /\ \A k \in DOMAIN status : status[k] => status'[k]
    ]_vars

C9_Witness ==
  /\ status["po-agent"] /\ status["onboarding-agent"]
  /\ modalActive = {"po-agent"}
  /\ preloadTimers # EmptyBag

\* the same iframe elements, whatever their inline opacity and load listeners
SameElements(f, g) ==
  /\ Len(f) = Len(g)
  /\ \A i \in 1..Len(f) :
        f[i].cls = g[i].cls /\ f[i].agent = g[i].agent /\ f[i].url = g[i].url

\* C10: for a known key whose panel and embed host exist, activate reports a
\* preloaded instance used exactly when a background frame for the key was
\* attached before the call; then the host holds a copy of the background
\* frame and its previous iframe is gone; otherwise the existing iframe stays
\* and nothing is created in the destination; either way the panel is open.
C10_ActivateUsesPreloaded ==
  [][ \A k \in KnownKeys :
        (used'.key = k /\ modalKind[k] = "ok") =>
           /\ (used'.result = "true") = (BackgroundCount(k) >= 1)
           /\ used'.result \in {"true", "false"}
           /\ k \in modalActive'
           /\ bgFrames' = bgFrames
           /\ IF used'.result = "true"
              THEN /\ Len(modalFrames'[k]) = 1
                   /\ modalFrames'[k][1].agent = k
                   /\ modalFrames'[k][1].url = storylaneUrls[k]
                   /\ modalFrames'[k][1].cls = "sl-demo"
                   /\ modalFrames'[k][1].opacity = "1"
              ELSE SameElements(modalFrames'[k], modalFrames[k])
           /\ \A o \in KnownKeys \ {k} : modalFrames'[o] = modalFrames[o]
    ]_vars

C10_Witness ==
  /\ used.key = "onboarding-agent" /\ used.result = "true"
  /\ "onboarding-agent" \in modalActive
  /\ modalFrames["po-agent"] # << >>
  /\ modalFrames["po-agent"][1].opacity = "0"

\* C11: activate never consumes the background copy: a step that calls
\* activate, for any key, leaves the background frames and the loaded flags
\* as they were, so once a key whose panel and embed host exist is loaded,
\* every later activate of it reports that the preloaded instance was used.
C11_ActivateKeepsBackground ==
  [][ \A k \in CardKeys \ {""} :
        used'.key = k =>
           /\ bgFrames' = bgFrames
           /\ status' = status
           /\ (k \in KnownKeys /\ status[k] /\ modalKind[k] = "ok") =>
                 /\ used'.result = "true"
                 /\ BackgroundCount(k)' = 1
    ]_vars

C11_Witness ==
  /\ used = [key |-> "po-agent", result |-> "true", open |-> {"po-agent"}]
  /\ modalFrames["po-agent"][1].agent = "po-agent"
  /\ modalFrames["onboarding-agent"][1].agent = "onboarding-agent"
  /\ BackgroundCount("po-agent") = 1

\* C12: at most one destination panel is open in every state, and after
\* activate(y), for a known or unknown key y, no panel other than y's is
\* open: a panel x that was open before the call is closed.
C12_OnePanelOpen ==
  [][ /\ Cardinality(modalActive) <= 1
      /\ Cardinality(modalActive') <= 1
      /\ \A y \in CardKeys \ {""} :
            used'.key = y => modalActive' \subseteq {y}
    ]_vars

C12_Witness ==
  /\ used.key = "onboarding-agent"
  /\ used.open = {"po-agent"}
  /\ modalActive = {"onboarding-agent"}

\* C13: while a destination panel is open, keyboard navigation of the host
\* page is disabled and body scrolling is suppressed; after deactivate (close
\* control or Escape) no panel is open, body scrolling is restored and
\* keyboard navigation is enabled; a second deactivate changes nothing.
C13_OpenPanelSuppresses ==
  [][ /\ modalActive' # {} => (keyboard' = FALSE /\ bodyOverflow' = "hidden")
      /\ used' = CloseCall =>
            /\ modalActive' = {} /\ bodyOverflow' = "" /\ keyboard' = TRUE
            /\ modalFrames' = modalFrames /\ bgFrames' = bgFrames
            /\ status' = status
      /\ (used = CloseCall /\ used' = CloseCall) =>
            /\ modalActive' = modalActive /\ bodyOverflow' = bodyOverflow
            /\ keyboard' = keyboard
    ]_vars

C13_Witness ==
  /\ used = CloseCall
  /\ modalActive = {} /\ bodyOverflow = "" /\ keyboard = TRUE
  /\ modalFrames["po-agent"] # << >>
  /\ modalFrames["po-agent"][1].agent = "po-agent"

\* C14: activate(k) with a key k outside the fixed agent set is a no-op: the
\* open panels, the body scroll suppression and the keyboard setting are the
\* same after the call as before it, also when another panel is open.
C14_UnknownActivateNoOp ==
  [][ \A k \in CardKeys \ (KnownKeys \cup {""}) :
        used'.key = k =>
           /\ modalActive' = modalActive
           /\ bodyOverflow' = bodyOverflow
           /\ keyboard' = keyboard
    ]_vars

\* one of the conditions under which swapPreloadedIframe(k) gives up holds
SwapGivesUp(k) ==
  \/ BackgroundCount(k) = 0
  \/ k \notin KnownKeys
  \/ modalKind[k] \in {"nomodal", "nohost"}

\* C15: swapPreloadedIframe(k) returns false and removes or adds no iframe
\* anywhere whenever no background frame for k exists, k has no mapped
\* destination, the destination container is missing or the embed host inside
\* it is missing (also on a page whose markup carries a preloader frame for
\* an unmapped key).
C15_SwapFailsClean ==
  /\ \A k \in KnownKeys \cup SwapKeys :
        SwapGivesUp(k) =>
           LET r == swapPreloadedIframe(modalKind, bgFrames, modalFrames, k) IN
           /\ ~r.threw /\ r.ok = FALSE
           /\ r.frames = modalFrames /\ r.bg = bgFrames
  /\ LET bg == Append(bgFrames, PreloadFrame("unknown-key"))
         r == swapPreloadedIframe(modalKind, bg, modalFrames, "unknown-key")
     IN ~r.threw /\ r.ok = FALSE /\ r.frames = modalFrames /\ r.bg = bg

\* the keys in the order of the staggered schedule and their delays (in 500 ms)
ScheduleOrder == <<"po-agent", "onboarding-agent", "interview-agent", "claim-agent">>
ScheduleDelay == <<1, 4, 7, 10>>

\* C21: with the agents section present a key is loaded either by a card
\* hover, at once, or by the staggered timer of the first initialisation,
\* 500 / 2000 / 3500 / 5000 ms after it was set and after every key earlier
\* in the order po, onboarding, interview, claim; a timer firing creates at
\* most one frame and none for a key already loaded; redundant
\* initialisations change none of this; eventually all four keys are loaded.
\* With the agents section absent nothing is scheduled or loaded.
C21_StaggeredPreload ==
  /\ [][ /\ \A i \in 1..4 :
              LET k == ScheduleOrder[i] IN
              (~status[k] /\ status'[k]) =>
                 \/ /\ preloadTimers' = preloadTimers
                    /\ k \in CardKeys
                 \/ \E t \in PreloadPending :
                       /\ PreloadFired(t) /\ t.key = k
                       /\ t.age = ScheduleDelay[i]
                       /\ \A u \in PreloadPending : u.key = k => u.age <= t.age
                       /\ \A j \in 1..(i - 1) : status[ScheduleOrder[j]]
         /\ \A t \in PreloadPending :
              PreloadFired(t) =>
                 /\ status'[t.key]
                 /\ Len(bgFrames') <= Len(bgFrames) + 1
                 /\ status[t.key] => bgFrames' = bgFrames
         /\ \A k \in CardKeys \cap KnownKeys :
              preloadStorylaneDemos(CacheNow, k).status[k]
         /\ ~agentsSlide =>
              /\ preloadTimers' = EmptyBag
              /\ bgFrames' = << >>
        ]_vars
  /\ (agentsSlide => <>(\A k \in KnownKeys : status[k]))

C21_Witness ==
  /\ \A k \in KnownKeys : status[k]
  /\ Len(bgFrames) = 4
  /\ bgFrames[1].agent = "onboarding-agent"
  /\ bgFrames[4].agent = "claim-agent"
  /\ inits = 2

\* C22: the document holds at most one script#storylane-script element: the
\* first run of initStorylaneDemoPreloader adds it, every later run adds none.
C22_OneScriptTag ==
  /\ scriptTags <= 1
  /\ (preloaderReady \/ inits > 0 \/ demoInstalls > 0) => scriptTags = 1

C22_Witness ==
  /\ scriptTags = 1
  /\ preloaderReady
  /\ demoInstalls = 1
  /\ inits = 2

\* C24: the status map and the document agree: a known key is marked loaded
\* exactly when one background frame for it is attached, and the lookup of
\* swapPreloadedIframe finds a background frame exactly for the loaded keys.
C24_FlagMatchesDocument ==
  \A k \in KnownKeys :
     /\ status[k] <=> BackgroundCount(k) = 1
     /\ ~status[k] <=> BackgroundCount(k) = 0
     /\ status[k] <=> PreloadedIndex(bgFrames, k) # 0

C24_Witness ==
  /\ status["po-agent"] /\ ~status["claim-agent"]
  /\ modalActive = {"po-agent"}
  /\ modalFrames["po-agent"] # << >>
  /\ modalFrames["po-agent"][1].agent = "po-agent"
  /\ BackgroundCount("po-agent") = 1

\* the number of accumulated click listeners C25 is evaluated for
HandlerCopies == 1..3

\* C25: every embed host holds at most one iframe in every reachable state,
\* and would after a click on any card handled by one, two or three copies of
\* the click listener; no iframe inside a modal matches the selector of the
\* background frames, so a clone is never taken for a background frame.
C25_OneFramePerHost ==
  /\ \A a \in KnownKeys :
        /\ Len(modalFrames[a]) <= 1
        /\ \A i \in 1..Len(modalFrames[a]) :
              modalFrames[a][i].cls # "storylane-preloader"
  /\ \A k \in CardKeys \ {""}, n \in HandlerCopies :
        LET m == ShowTimes(modalKind, Modals, k, n) IN
        \A a \in KnownKeys :
           /\ Len(m.frames[a]) <= 1
           /\ \A i \in 1..Len(m.frames[a]) :
                 m.frames[a][i].cls # "storylane-preloader"

C25_Witness ==
  /\ used = [key |-> "onboarding-agent", result |-> "true",
             open |-> {"onboarding-agent"}]
  /\ Len(modalFrames["onboarding-agent"]) = 1
  /\ modalFrames["onboarding-agent"][1].cls = "sl-demo"
  /\ modalFrames["onboarding-agent"][1].agent = "onboarding-agent"

\* ------------------------------------------------ the overlay specification
\* The zoom overlay and the modals on a page that loads the interaction
\* script without the preloader: setupStorylaneDemos has installed its
\* listeners once, no frame is preloaded, and the iframes of the modals may
\* or may not have finished loading.
OverlayKeys == {"po-agent", "onboarding-agent", "unknown-key"}

OverlayInit ==
  /\ TooltipIdle
  /\ agentsSlide = TRUE
  /\ modalKind = [k \in KnownKeys |-> "ok"]
  /\ modalFrames = [k \in KnownKeys |-> <<StaticFrame(k)>>]
  /\ status = [k \in KnownKeys |-> FALSE]
  /\ bgFrames = << >>
  /\ modalActive = {}
  /\ bodyOverflow = ""
  /\ keyboard = TRUE
  /\ scriptTags = 0
  /\ preloaderReady = FALSE
  /\ inits = 0
  /\ demoInstalls = 1
  /\ preloadTimers = EmptyBag
  /\ used = NoCall
  /\ zoomActive = FALSE
  /\ frameLoading \in SUBSET (OverlayKeys \cap KnownKeys)
  /\ fonts = adjustContentScaling(MarkupFonts, viewport.w)
  /\ script = "consistency"
  /\ contentSet = [one |-> "block", two |-> "none"]
  /\ currentSlide = "other"
  /\ popupActive = {}
  /\ hoverAt = "away"
  /\ lastEvent = NoEvent

OverlayNext ==
  \/ ImageClick
  \/ CloseZoomClick
  \/ EscapeKey
  \/ \E k \in OverlayKeys : CardClick(k)
  \/ CloseClickModal
  \/ \E k \in frameLoading : FrameLoad(k)

OverlaySpec == OverlayInit /\ [][OverlayNext]_vars

\* The overlay specification with the scheduling the browser guarantees: an
\* iframe that is still loading finishes loading and fires 'load'.
OverlayLiveSpec ==
  /\ OverlayInit
  /\ [][OverlayNext]_vars
  /\ WF_vars(\E k \in frameLoading : FrameLoad(k))

\* --------------------------------------------------- overlay properties
\* C26: whenever the zoom overlay or a destination panel is active, the
\* keyboard navigation of the slideshow is disabled.
C26_OverlayDisablesKeyboard ==
  (zoomActive \/ modalActive # {}) => ~keyboard

\* the agents whose last activation took the fallback path
Fallback(k) == used.key = k /\ used.result = "false"

\* C27: every activation that takes the fallback path is eventually followed
\* by the iframe of that panel having opacity 1.
C27_FallbackBecomesVisible ==
  \A k \in OverlayKeys \cap KnownKeys :
     (Fallback(k) /\ modalFrames[k] # << >>)
        ~> (modalFrames[k] # << >> /\ modalFrames[k][1].opacity = "1")

\* -------------------------------------------------- the slide specification
\* Content scaling, the two content sets of the AI-adoption slide and its
\* explanation popups, on a page without the intelligent-agents slide
\* (setupStorylaneDemos returns at once).
SlideWidths == {1000, 1280, 1281, 1440, 1441, 1920}

Scripts == {"consistency", "interactive"}

Slides == {"ai", "other"}

\* the .future-card elements of the AI-adoption slide
Cards == {"c1", "c2"}

Away == [part |-> "away", card |-> ""]

\* the places the pointer can be: a card's title, a card's popup, elsewhere
Places == {Away} \cup [part : {"title", "popup"}, card : Cards]

miscAlwaysResets(cs, initialized, current) ==
  [one |-> "block", two |-> "none"]

\* setupMiscInteractions(): the content sets after the call
setupMiscInteractions(cs, initialized, current) ==
  IF ~initialized \/ current = "ai"
  THEN [one |-> "block", two |-> "none"]
  ELSE cs

\* click on #next-button: the listener of setupAIAdoptionSlide, or the
\* delegated listener of slides-interactive.js
nextButton(sc, cs) ==
  IF sc = "consistency" THEN [one |-> "none", two |-> "flex"]
  ELSE [one |-> "none", two |-> "block"]

\* click on #back-button
backButton(sc, cs) ==
  IF sc = "consistency" THEN [one |-> "flex", two |-> "none"]
  ELSE [one |-> "block", two |-> "none"]

\* keydown ArrowDown / ArrowUp: only slides-interactive.js acts on them, on
\* the AI-adoption slide, when the set to leave is displayed
arrowDown(sc, cs, current) ==
  IF sc = "interactive" /\ current = "ai" /\ cs.one # "none"
  THEN [one |-> "none", two |-> "block"]
  ELSE cs

arrowUp(sc, cs, current) ==
  IF sc = "interactive" /\ current = "ai" /\ cs.two # "none"
  THEN [one |-> "block", two |-> "none"]
  ELSE cs

\* the listeners of setupExplanationPopups; pa is the set of active popups
titleMouseEnter(pa, c) == (pa \ {p \in pa : p # c}) \cup {c}

titleMouseLeave(pa, c, popupHovered) == IF ~popupHovered THEN pa \ {c} ELSE pa

popupMouseEnter(pa, c) == pa \cup {c}

popupMouseLeave(pa, c) == pa \ {c}

titleClick(pa, c) ==
  LET isCurrentlyActive == c \in pa
      cleared == pa \ pa
  IN IF ~isCurrentlyActive THEN cleared \cup {c} ELSE cleared

outsideClick(pa) == pa \ pa

\* mouseleave on the place the pointer leaves, the pointer being at `to`
LeaveListener(pa, from, to) ==
  CASE from.part = "title" ->
         titleMouseLeave(pa, from.card, to = [part |-> "popup", card |-> from.card])
    [] from.part = "popup" -> popupMouseLeave(pa, from.card)
    [] OTHER -> pa

\* mouseenter on the place the pointer enters
EnterListener(pa, to) ==
  CASE to.part = "title" -> titleMouseEnter(pa, to.card)
    [] to.part = "popup" -> popupMouseEnter(pa, to.card)
    [] OTHER -> pa

SlideInit ==
  /\ installs = 1
  /\ viewport \in [w : SlideWidths, h : {600}]
  /\ geom = PageGeom
  /\ boxStyle = [b \in Boxes |-> InitStyle]
  /\ boxClass = [b \in Boxes |-> {}]
  /\ ptr = "away"
  /\ timers = EmptyBag
  /\ reenter = "none"
  /\ CacheStart
  /\ agentsSlide = FALSE
  /\ modalKind = [k \in KnownKeys |-> "ok"]
  /\ modalFrames = [k \in KnownKeys |-> <<StaticFrame(k)>>]
  /\ zoomActive = FALSE
  /\ frameLoading = {}
  /\ fonts = adjustContentScaling(MarkupFonts, viewport.w)
  /\ script \in Scripts
  /\ currentSlide \in Slides
  /\ contentSet = setupMiscInteractions([one |-> "", two |-> ""], FALSE, currentSlide)
  /\ popupActive = {}
  /\ hoverAt = Away
  /\ lastEvent = NoEvent

\* window 'resize': adjustContentScaling at the new width
Resize(w) ==
  /\ w # viewport.w
  /\ viewport' = [viewport EXCEPT !.w = w]
  /\ fonts' = adjustContentScaling(fonts, w)
  /\ lastEvent' = NoEvent
  /\ UNCHANGED <<installs, geom, boxStyle, boxClass, ptr, timers, reenter>>
  /\ UNCHANGED <<script, contentSet, currentSlide, popupActive, hoverAt>>
  /\ UNCHANGED <<cvars, ovars>>

\* Reveal 'slidechanged' with s the new current slide: the listener that runs
\* setupAllSlideInteractions; setupAIAdoptionSlide replaces the buttons and
\* the card titles by clones with one listener each, setupMiscInteractions
\* resets the content sets. A title under the pointer is replaced while its
\* slide is hidden: the clone is never entered, so no mouseleave reaches it.
SectionChanged(s) ==
  /\ currentSlide = "ai" => s # "ai"
  /\ currentSlide' = s
  /\ contentSet' = setupMiscInteractions(contentSet, TRUE, s)
  /\ hoverAt' = IF script = "consistency" /\ hoverAt.part = "title" THEN Away
                ELSE hoverAt
  /\ lastEvent' = [kind |-> "section", card |-> ""]
  /\ UNCHANGED <<fonts, script, popupActive>>
  /\ UNCHANGED <<tvars, cvars, ovars>>

NextClick ==
  /\ currentSlide = "ai"
  /\ contentSet' = nextButton(script, contentSet)
  /\ lastEvent' = [kind |-> "next", card |-> ""]
  /\ UNCHANGED <<fonts, script, currentSlide, popupActive, hoverAt>>
  /\ UNCHANGED <<tvars, cvars, ovars>>

BackClick ==
  /\ currentSlide = "ai"
  /\ contentSet' = backButton(script, contentSet)
  /\ lastEvent' = [kind |-> "back", card |-> ""]
  /\ UNCHANGED <<fonts, script, currentSlide, popupActive, hoverAt>>
  /\ UNCHANGED <<tvars, cvars, ovars>>

ArrowDownKey ==
  /\ contentSet' = arrowDown(script, contentSet, currentSlide)
  /\ lastEvent' = [kind |-> "down", card |-> ""]
  /\ UNCHANGED <<fonts, script, currentSlide, popupActive, hoverAt>>
  /\ UNCHANGED <<tvars, cvars, ovars>>

ArrowUpKey ==
  /\ contentSet' = arrowUp(script, contentSet, currentSlide)
  /\ lastEvent' = [kind |-> "up", card |-> ""]
  /\ UNCHANGED <<fonts, script, currentSlide, popupActive, hoverAt>>
  /\ UNCHANGED <<tvars, cvars, ovars>>

\* the pointer moves to another place, one of the shown slide or away from
\* the cards: mouseleave is dispatched to the place left, then mouseenter to
\* the place entered (only slide-consistency.js installs the popup
\* listeners; the stylesheet is not among the sources, and the scripts do
\* nothing to keep the pointer off a popup that is not active)
PointerMove(to) ==
  /\ script = "consistency"
  /\ to # hoverAt
  /\ to = Away \/ currentSlide = "ai"
  /\ hoverAt' = to
  /\ popupActive' = EnterListener(LeaveListener(popupActive, hoverAt, to), to)
  /\ lastEvent' = [kind |-> to.part, card |-> to.card]
  /\ UNCHANGED <<fonts, script, contentSet, currentSlide>>
  /\ UNCHANGED <<tvars, cvars, ovars>>

\* click on the card title under the pointer
TitleClick(c) ==
  /\ script = "consistency"
  /\ hoverAt = [part |-> "title", card |-> c]
  /\ popupActive' = titleClick(popupActive, c)
  /\ lastEvent' = [kind |-> "click", card |-> c]
  /\ UNCHANGED <<fonts, script, contentSet, currentSlide, hoverAt>>
  /\ UNCHANGED <<tvars, cvars, ovars>>

\* click outside every .future-card
OutsideClick ==
  /\ script = "consistency"
  /\ hoverAt = Away
  /\ popupActive' = outsideClick(popupActive)
  /\ lastEvent' = [kind |-> "outside", card |-> ""]
  /\ UNCHANGED <<fonts, script, contentSet, currentSlide, hoverAt>>
  /\ UNCHANGED <<tvars, cvars, ovars>>

SlideNext ==
  \/ \E w \in SlideWidths : Resize(w)
  \/ SlideChanged
  \/ \E s \in Slides : SectionChanged(s)
  \/ NextClick
  \/ BackClick
  \/ ArrowDownKey
  \/ ArrowUpKey
  \/ \E to \in Places : PointerMove(to)
  \/ \E c \in Cards : TitleClick(c)
  \/ OutsideClick

SlideSpec == SlideInit /\ [][SlideNext]_vars

\* ------------------------------------------------------ slide properties
\* the heading size a page loaded at width w gets
HeadingAt(w) ==
  IF w <= 1280 THEN "22px" ELSE IF w <= 1440 THEN "24px" ELSE ""

\* C28: the inline font size of the headings is a function of the current
\* viewport width alone (22px up to 1280, 24px up to 1440, none above), as
\* the section scale is.
C28_HeadingFollowsWidth ==
  /\ fonts.heading = HeadingAt(viewport.w)
  /\ fonts.section = ScaleFactor(viewport.w)

Shown(d) == d # "none"

\* C29: exactly one content set is displayed and the other has display
\* 'none'; next shows set 2, back shows set 1, a repeated next or back
\* changes nothing; a section change to the AI-adoption slide shows set 1,
\* one to another slide leaves the content sets and the popups as they were.
C29_OneContentSet ==
  /\ Shown(contentSet.one) # Shown(contentSet.two)
  /\ [][ /\ Shown(contentSet'.one) # Shown(contentSet'.two)
         /\ lastEvent'.kind = "next" =>
               Shown(contentSet'.two) /\ contentSet'.one = "none"
         /\ lastEvent'.kind = "back" =>
               Shown(contentSet'.one) /\ contentSet'.two = "none"
         /\ lastEvent.kind = lastEvent'.kind /\ lastEvent.kind \in {"next", "back"} =>
               contentSet' = contentSet
         /\ lastEvent'.kind = "section" /\ currentSlide' = "ai" =>
               Shown(contentSet'.one) /\ contentSet'.two = "none"
         /\ lastEvent'.kind = "section" /\ currentSlide' # "ai" =>
               contentSet' = contentSet /\ popupActive' = popupActive
     ]_vars

C29_Witness ==
  /\ lastEvent.kind = "section"
  /\ currentSlide = "other"
  /\ Shown(contentSet.two)
  /\ contentSet.one = "none"

\* C30: at most one explanation popup is active; entering a title leaves
\* exactly that card's popup active, a click on a title toggles that card's
\* popup and deactivates the others, a click outside the cards deactivates
\* all.
C30_OnePopup ==
  /\ Cardinality(popupActive) <= 1
  /\ [][ /\ Cardinality(popupActive') <= 1
         /\ lastEvent'.kind = "title" /\ hoverAt' # hoverAt =>
               popupActive' = {lastEvent'.card}
         /\ lastEvent'.kind = "click" /\ lastEvent'.card \in popupActive =>
               popupActive' = {}
         /\ lastEvent'.kind = "click" /\ lastEvent'.card \notin popupActive =>
               popupActive' = {lastEvent'.card}
         /\ lastEvent'.kind = "outside" => popupActive' = {}
     ]_vars

\* ------------------------------------------------ the tooltip specification
Next ==
  \/ SlideChanged
  \/ \E a \in Anchors : AnchorMouseEnter(a)
  \/ \E a \in Anchors : AnchorMouseLeave(a)
  \/ \E b \in Boxes : BoxMouseEnter(b)
  \/ \E b \in Boxes : BoxMouseLeave(b)
  \/ \E b \in Boxes : CloseClick(b)
  \/ \E b \in Boxes : FragmentShown(b)
  \/ \E b \in Boxes : FragmentHidden(b)
  \/ \E t \in Pending : GraceFire(t)
  \/ \E t \in Pending : HideFire(t)
  \/ Tick

Spec == Init /\ [][Next]_vars

TypeOK ==
  /\ installs \in 1..MaxInstalls
  /\ ptr \in Anchors \cup Boxes \cup {"away"}
  /\ NumTimers <= MaxTimers

\* ------------------------------------------- the placement specification
\* The hover handlers on pages of other layouts: the window is one of
\* PlaceViewports, the funnel level a1 lies at one of PlaceRects and its
\* info box measures as one of PlaceSizes.
PlaceViewports ==
  { [w |-> 1000, h |-> 600], [w |-> 1000, h |-> 150],
    [w |-> 1280, h |-> 600], [w |-> 1400, h |-> 150] }

PlaceRects ==
  { [left |-> p[1], top |-> p[2], width |-> 100, height |-> 41] :
      p \in { <<20, 0 - 50>>, <<20, 580>>, <<450, 300>>,
               <<700, 0 - 50>>, <<700, 580>>, <<1100, 300>> } }

PlaceSizes == { [w |-> 0, h |-> 0], [w |-> 300, h |-> 200], [w |-> 950, h |-> 100] }

\* the inline visibility and opacity the markup of these pages gives
\* info-box-0: every pair of values occurs on some page
PlaceVisibility(z) ==
  CASE z.w = 0 -> "" [] z.w = 300 -> "hidden" [] OTHER -> "visible"

PlaceOpacity(r) ==
  CASE r.left = 20 -> "" [] r.left = 700 -> "0.5" [] OTHER -> "0"

PlaceInit ==
  /\ installs = 1
  /\ viewport \in PlaceViewports
  /\ \E r \in PlaceRects, z \in PlaceSizes :
        /\ geom = [PageGeom EXCEPT !.rect["a1"] = r, !.size["b0"] = z]
        /\ boxStyle = [b \in Boxes |->
                         IF b = "b0"
                         THEN [InitStyle EXCEPT !.visibility = PlaceVisibility(z),
                                                !.opacity = PlaceOpacity(r)]
                         ELSE InitStyle]
  /\ boxClass = [b \in Boxes |-> {}]
  /\ ptr = "away"
  /\ timers = EmptyBag
  /\ reenter = "none"
  /\ CacheIdle
  /\ PageIdle

\* the funnel levels the pointer visits on these pages
PlaceAnchors == {"a1", "a2", "aX"}

PlaceNext ==
  \/ \E a \in PlaceAnchors : AnchorMouseEnter(a)
  \/ \E a \in PlaceAnchors : AnchorMouseLeave(a)
  \/ \E t \in Pending : GraceFire(t)
  \/ \E t \in Pending : HideFire(t)
  \/ Tick

PlaceSpec == PlaceInit /\ [][PlaceNext]_vars

\* ---------------------------------------------------- placement properties
\* the width and height positionInfoBoxGlobal works with for box b
TipWidth(b) == IF geom.size[b].w # 0 THEN geom.size[b].w ELSE DefaultWidth
TipHeight(b) == IF geom.size[b].h # 0 THEN geom.size[b].h ELSE DefaultHeight

\* the mouseenter on funnel level a of this step positions a tooltip
Placed(a) == ptr = "away" /\ ptr' = a /\ ResolveInfoBox(a) \in Boxes

\* the clamp of a top coordinate (in half pixels) for tooltip height h
ClampTop2(t2, h) == Max(2 * 10, Min(2 * (viewport.h - h - 10), t2))

\* C16 as stated: the applied top coordinate lies in [10, H - h - 10] for
\* every anchor, viewport height H and tooltip height h, and clamping the
\* applied value again returns it unchanged.
C16_TopWithinBand ==
  [][ \A a \in Anchors :
        Placed(a) =>
           LET b == ResolveInfoBox(a)
               top2 == boxStyle'[b].top2
           IN /\ 2 * 10 <= top2
              /\ top2 <= 2 * (viewport.h - TipHeight(b) - 10)
              /\ ClampTop2(top2, TipHeight(b)) = top2
    ]_vars

\* C16 amended: the applied top coordinate is at least 10; it lies in
\* [10, H - h - 10] whenever h <= H - 20 and is exactly 10 for a taller
\* tooltip; it is the clamp of the centred position, and clamping it again
\* returns it unchanged.
C16_TopClamped ==
  [][ \A a \in Anchors :
        Placed(a) =>
           LET b == ResolveInfoBox(a)
               h == TipHeight(b)
               top2 == boxStyle'[b].top2
               centred2 == 2 * geom.rect[a].top + geom.rect[a].height - h
           IN /\ 2 * 10 <= top2
              /\ h <= viewport.h - 20 => top2 <= 2 * (viewport.h - h - 10)
              /\ h > viewport.h - 20 => top2 = 2 * 10
              /\ (2 * 10 <= centred2 /\ centred2 <= 2 * (viewport.h - h - 10))
                    => top2 = centred2
              /\ ClampTop2(top2, h) = top2
    ]_vars

\* a tooltip pushed up from below the viewport to the lower limit
C16_Witness ==
  /\ ptr = "a1"
  /\ boxStyle["b0"].display = "block"
  /\ TipHeight("b0") <= viewport.h - 20
  /\ 2 * geom.rect["a1"].top + geom.rect["a1"].height - TipHeight("b0")
        > 2 * (viewport.h - TipHeight("b0") - 10)
  /\ boxStyle["b0"].top2 = 2 * (viewport.h - TipHeight("b0") - 10)

\* the right edge of funnel level a (targetRect.right)
AnchorRight(a) == geom.rect[a].left + geom.rect[a].width

\* the side classes box b carries after this step
SideAfter(b) == boxClass'[b] \cap {"left-side", "right-side"}

\* C17: in a viewport of width W >= 1280 every positioning marks the tooltip
\* right-side, never left-side, and applies left = min(W - w - 10,
\* anchorRight + 10), so the left coordinate never exceeds W - w - 10.
C17_WideRightOfAnchor ==
  [][ \A a \in Anchors :
        (Placed(a) /\ viewport.w >= 1280) =>
           LET b == ResolveInfoBox(a)
               w == TipWidth(b)
               left == boxStyle'[b].left
           IN /\ SideAfter(b) = {"right-side"}
              /\ left = Min(viewport.w - w - 10, AnchorRight(a) + 10)
              /\ left <= viewport.w - w - 10
              /\ left + w <= viewport.w - 10
    ]_vars

\* a viewport exactly 1280 wide, the anchor in its right half
C17_Witness ==
  /\ ptr = "a1"
  /\ viewport.w = 1280
  /\ 2 * geom.rect["a1"].left + geom.rect["a1"].width > viewport.w
  /\ boxStyle["b0"].display = "block"
  /\ "right-side" \in boxClass["b0"]
  /\ boxStyle["b0"].left = viewport.w - TipWidth("b0") - 10

\* C18 as stated: in a viewport of width W >= 1280 the tooltip's left edge
\* is at anchorRight + 10, so the tooltip never overlaps the anchor.
C18_WideLeftEdgeAtAnchor ==
  [][ \A a \in Anchors :
        (Placed(a) /\ viewport.w >= 1280) =>
           LET b == ResolveInfoBox(a) IN
           /\ boxStyle'[b].left = AnchorRight(a) + 10
           /\ boxStyle'[b].left >= AnchorRight(a)
    ]_vars

\* C18 amended: in a viewport of width W >= 1280 the tooltip's left edge is
\* at anchorRight + 10, clear of the anchor, whenever the tooltip fits there
\* (anchorRight + 10 + w <= W - 10); when it does not fit, the left edge is
\* at W - w - 10, left of anchorRight + 10.
C18_WideLeftEdgeWhenFits ==
  [][ \A a \in Anchors :
        (Placed(a) /\ viewport.w >= 1280) =>
           LET b == ResolveInfoBox(a)
               w == TipWidth(b)
               left == boxStyle'[b].left
           IN IF AnchorRight(a) + 10 + w <= viewport.w - 10
              THEN left = AnchorRight(a) + 10 /\ left >= AnchorRight(a)
              ELSE left = viewport.w - w - 10 /\ left < AnchorRight(a) + 10
    ]_vars

\* a wide viewport in which the tooltip fits to the right of the anchor
C18_Witness ==
  /\ ptr = "a1"
  /\ viewport.w >= 1280
  /\ AnchorRight("a1") + 10 + TipWidth("b0") <= viewport.w - 10
  /\ boxStyle["b0"].display = "block"
  /\ boxStyle["b0"].left = AnchorRight("a1") + 10

\* C19: in a viewport of width W < 1280 an anchor whose horizontal centre is
\* right of W/2 gets its tooltip marked left-side at left = max(10,
\* anchorLeft - w - 10) >= 10; any other anchor (centre exactly at W/2
\* included) gets it marked right-side at left = min(W - w - 10,
\* anchorRight + 10), its right edge at most W - 10.  After every positioning,
\* in any viewport, exactly one of left-side / right-side is set.
C19_NarrowOppositeSide ==
  [][ \A a \in Anchors :
        Placed(a) =>
           LET b == ResolveInfoBox(a)
               w == TipWidth(b)
               left == boxStyle'[b].left
               r == geom.rect[a]
           IN /\ Cardinality(SideAfter(b)) = 1
              /\ viewport.w < 1280 =>
                    IF 2 * r.left + r.width > viewport.w
                    THEN /\ SideAfter(b) = {"left-side"}
                         /\ left = Max(10, r.left - w - 10)
                         /\ left >= 10
                    ELSE /\ SideAfter(b) = {"right-side"}
                         /\ left = Min(viewport.w - w - 10, AnchorRight(a) + 10)
                         /\ left + w <= viewport.w - 10
    ]_vars

\* a narrow viewport, the anchor's centre exactly at W/2, after the tooltip
\* had been placed on the other side for a2
C19_Witness ==
  /\ ptr = "a1"
  /\ viewport.w < 1280
  /\ 2 * geom.rect["a1"].left + geom.rect["a1"].width = viewport.w
  /\ boxStyle["b0"].display = "block"
  /\ boxClass["b0"] \cap {"left-side", "right-side"} = {"right-side"}
  /\ "left-side" \in boxClass["b1"]

\* C23: positionInfoBoxGlobal returns with the tooltip's inline visibility
\* and opacity exactly as they were on entry, whatever they were, and changes
\* only the tooltip's position, left, top and left-side / right-side classes.
C23_PositionRestoresStyle ==
  [][ \A a \in Anchors :
        Placed(a) =>
           LET b == ResolveInfoBox(a)
               p == PositionInfoBoxGlobal(boxStyle[b], boxClass[b], b,
                                          geom.rect[a], viewport)
           IN /\ boxStyle'[b].visibility = boxStyle[b].visibility
              /\ boxStyle'[b].opacity = boxStyle[b].opacity
              /\ p.style = [boxStyle[b] EXCEPT !.position = boxStyle'[b].position,
                                               !.left = boxStyle'[b].left,
                                               !.top2 = boxStyle'[b].top2]
              /\ p.classes \ {"left-side", "right-side"}
                    = boxClass[b] \ {"left-side", "right-side"}
              /\ \A o \in Boxes \ {b} :
                    boxStyle'[o] = boxStyle[o] /\ boxClass'[o] = boxClass[o]
    ]_vars

C23_Witness ==
  /\ ptr = "a1"
  /\ boxStyle["b0"].display = "block"
  /\ boxStyle["b0"].position = "fixed"
  /\ boxStyle["b0"].visibility = "hidden"
  /\ boxStyle["b0"].opacity = "0.5"

\* ------------------------------------------------------ tooltip properties
\* steps of the tooltip specification, recognised by what they do to the state
Fired(t) == t.left = 0 /\ CopiesIn(t, timers') < CopiesIn(t, timers)
Scheduled(t) == CopiesIn(t, timers') > CopiesIn(t, timers)
Entering(x) == ptr = "away" /\ ptr' = x
Leaving(x) == ptr = x /\ ptr' = "away"
HoverVisible(b) == "hover-visible" \in boxClass[b]
Pinned(b) == "active" \in boxClass[b]
Displayed(b) == boxStyle[b].display # "none"

\* the tooltip an element belongs to
TooltipOf(x) == IF x \in Boxes THEN x ELSE ResolveInfoBox(x)

\* hover-visible is set by a mouseenter on the tooltip or on one of its
\* anchors and by nothing else; active is set by no timer and no pointer handler
OnlyEnterSetsHover(b) ==
  (~HoverVisible(b) /\ HoverVisible(b)') =>
     \E x \in Anchors \cup Boxes : Entering(x) /\ TooltipOf(x) = b

OnlyPinSetsActive(b) ==
  (~Pinned(b) /\ Pinned(b)') =>
     (timers' = timers /\ ptr' = ptr /\ boxStyle' = boxStyle)

\* a due 300 ms timer hides its tooltip when neither flag is set
HideTimerHides(t) ==
  (Fired(t) /\ ~HoverVisible(t.box) /\ ~Pinned(t.box)) =>
     (boxStyle'[t.box].display = "none" /\ t.age >= 3)

\* C1: a mouseleave on an anchor or tooltip followed by a mouseenter on the
\* same element before the hide timer of the mouseleave has fired, with no
\* further pointer event, leaves the tooltip displayed once every pending
\* timer has fired.
C1_ReenterKeepsDisplayed ==
  \A x \in Anchors \cup Boxes :
     (reenter = x /\ timers = EmptyBag) => Displayed(TooltipOf(x))

\* C2: a tooltip's display changes to 'none' only in the callback of a timer
\* scheduled at least 300 ms earlier, never in a pointer or click handler, and
\* only while the tooltip carries neither hover-visible nor active; a hide
\* timer that fires while one of the flags is set changes nothing.
C2_HideOnlyByTimer ==
  [][ \A b \in Boxes :
        /\ (Displayed(b) /\ ~Displayed(b)') =>
              /\ \E t \in Pending :
                    /\ t.kind = "hide" /\ t.box = b /\ t.age >= 3
                    /\ Fired(t)
                    /\ timers' = Cancel(timers, t)
              /\ ptr' = ptr
              /\ boxClass' = boxClass
              /\ ~HoverVisible(b) /\ ~Pinned(b)
        /\ \A t \in Pending :
              (t.kind = "hide" /\ t.box = b /\ Fired(t)
                 /\ (HoverVisible(b) \/ Pinned(b))) =>
                 (boxStyle' = boxStyle /\ boxClass' = boxClass /\ ptr' = ptr)
    ]_vars

C2_Witness ==
  \E b \in Boxes : ~Displayed(b) /\ boxStyle[b].position = "fixed"

\* C3: after a mouseleave on an anchor, the 200 ms check clears hover-visible
\* and starts the 300 ms hide timer when the pointer is not over the tooltip,
\* and otherwise clears nothing and hides nothing; the hide timer of this
\* chain fires no earlier than 500 ms after the mouseleave and sets display
\* 'none' when the tooltip is neither hover-visible nor pinned, which is the
\* case when no mouseenter on the anchor or tooltip happened in between.
C3_AnchorLeaveChain ==
  [][ /\ \A a \in Anchors :
           (Leaving(a) /\ TooltipOf(a) \in Boxes) =>
              /\ CopiesIn([kind |-> "grace", box |-> TooltipOf(a), left |-> 2,
                           age |-> 0, total |-> 0, el |-> a], timers') >= 1
              /\ boxStyle' = boxStyle /\ boxClass' = boxClass
      /\ \A t \in Pending :
           /\ (t.kind = "grace" /\ Fired(t)) =>
                 /\ t.age >= 2
                 /\ boxStyle' = boxStyle
                 /\ IF ptr = t.box /\ Displayed(t.box)
                    THEN boxClass' = boxClass /\ timers' = Cancel(timers, t)
                    ELSE /\ ~HoverVisible(t.box)'
                         /\ Scheduled([kind |-> "hide", box |-> t.box, left |-> 3,
                                       age |-> 0, total |-> t.total, el |-> t.el])
           /\ (t.kind = "hide" /\ t.el \in Anchors) =>
                 /\ HideTimerHides(t)
                 /\ Fired(t) => t.total >= 5
      /\ \A b \in Boxes : OnlyEnterSetsHover(b)
    ]_vars

C3_Witness ==
  \E t \in Pending :
     /\ t.kind = "hide" /\ t.el \in Anchors /\ t.left = 0
     /\ Displayed(t.box) /\ ~HoverVisible(t.box) /\ ~Pinned(t.box)

\* C4: a click on a tooltip's dismiss control clears hover-visible and active
\* at once, whatever their values, and starts a 300 ms timer; when it fires
\* the tooltip's display becomes 'none' unless a mouseenter or a re-pin set a
\* flag again in between.
C4_DismissOverridesPin ==
  [][ /\ \A b \in Boxes :
           Scheduled([kind |-> "hide", box |-> b, left |-> 3, age |-> 0,
                      total |-> 0, el |-> "close"]) =>
              /\ ~HoverVisible(b)' /\ ~Pinned(b)'
              /\ boxStyle' = boxStyle
      /\ \A t \in Pending :
           (t.kind = "hide" /\ t.el = "close") => HideTimerHides(t)
      /\ \A b \in Boxes : OnlyEnterSetsHover(b) /\ OnlyPinSetsActive(b)
    ]_vars

C4_Witness ==
  \E t \in Pending :
     /\ t.kind = "hide" /\ t.el = "close" /\ t.left = 0
     /\ Displayed(t.box) /\ ~HoverVisible(t.box) /\ ~Pinned(t.box)

\* the anchors whose level class is funnel-level-N for a decimal number N
NumberedAnchors == {"a1", "a2", "aM"}
LevelN(a) == CASE a = "a1" -> 1 [] a = "a2" -> 2 [] a = "aM" -> 5

\* the element whose id is info-box-n
InfoBoxNamed(n) == CASE n = 0 -> "b0" [] n = 1 -> "b1" [] OTHER -> "null"

\* where the boxes of a1 and a2 belong in the 1000 x 600 viewport
ExpectedPlace(a) ==
  CASE a = "a1" -> [left |-> 310, top2 |-> 20, side |-> "right-side"]
    [] a = "a2" -> [left |-> 390, top2 |-> 440, side |-> "left-side"]

\* C5: a mouseenter on an anchor of class funnel-level-N shows, marks
\* hover-visible and repositions exactly the tooltip info-box-(N-1) and
\* leaves every other tooltip as it was; a mouseenter / mouseleave on a
\* tooltip sets / clears only that tooltip's hover-visible flag, the
\* mouseleave also starting a 300 ms hide timer.
C5_EnterShowsOwnTooltip ==
  [][ /\ \A a \in NumberedAnchors :
           Entering(a) =>
              LET b == InfoBoxNamed(LevelN(a) - 1) IN
              /\ b \in Boxes =>
                    /\ boxStyle'[b].display = "block"
                    /\ HoverVisible(b)'
                    /\ Pinned(b)' = Pinned(b)
                    /\ boxStyle'[b].position = "fixed"
                    /\ boxStyle'[b].left = ExpectedPlace(a).left
                    /\ boxStyle'[b].top2 = ExpectedPlace(a).top2
                    /\ boxClass'[b] \cap {"left-side", "right-side"}
                         = {ExpectedPlace(a).side}
              /\ \A o \in Boxes \ {b} :
                    boxStyle'[o] = boxStyle[o] /\ boxClass'[o] = boxClass[o]
              /\ timers' = timers
      /\ \A b \in Boxes :
           /\ Entering(b) =>
                 /\ boxClass' = [boxClass EXCEPT ![b] = @ \cup {"hover-visible"}]
                 /\ boxStyle' = boxStyle
                 /\ timers' = timers
           /\ Leaving(b) =>
                 /\ boxClass' = [boxClass EXCEPT ![b] = @ \ {"hover-visible"}]
                 /\ boxStyle' = boxStyle
                 /\ Scheduled([kind |-> "hide", box |-> b, left |-> 3, age |-> 0,
                               total |-> 0, el |-> b])
    ]_vars

C5_Witness ==
  /\ ptr = "a2"
  /\ boxStyle["b1"].display = "block"
  /\ boxStyle["b0"].display = "block"
  /\ Pinned("b0")

\* the anchors with no class starting with 'funnel-level-' (aP), with a class
\* suffix that is not a number (aN, aX) or with no element for the derived id (aM)
MalformedAnchors == {"aP", "aN", "aX", "aM"}

\* C6: a mouseenter or mouseleave on an anchor with no level class, with a
\* class suffix that is not a number, or with no element for the derived id
\* schedules no timer and changes no tooltip's state.
C6_MalformedAnchorIgnored ==
  [][ \A a \in MalformedAnchors :
        (Entering(a) \/ Leaving(a)) =>
           (timers' = timers /\ boxStyle' = boxStyle /\ boxClass' = boxClass)
    ]_vars

\* C20: handlers do not accumulate across re-installation: whatever the
\* number of section-changed events before it, one mouseleave on an anchor
\* with a tooltip, or on a tooltip, schedules exactly one hide-timer chain.
C20_OneChainPerLeave ==
  [][ \A x \in Anchors \cup Boxes :
        (Leaving(x) /\ TooltipOf(x) \in Boxes) =>
           BagCardinality(timers') = BagCardinality(timers) + 1
    ]_vars

====
